---- MODULE Spec2Model ----
(***************************************************************************)
(* Model of the IPC binding and value-restoration protocol of              *)
(* electron-affinity (qi fork): src/src/lib/restorer_lib.ts (Restorer and  *)
(* the window-side library) and src/unnamed/part_003 (shared library).     *)
(*                                                                         *)
(* Processes: the binding windows (set Windows) run bindMainApi and the    *)
(* retry loop; the exposing process ("host") runs exposeApi and the        *)
(* discovery-request listener and the handlers that answer proxy calls.    *)
(* Strings that the code inspects character by character (property names,  *)
(* class names, wire names) are sequences of one-character strings.        *)
(***************************************************************************)
EXTENDS Integers, Sequences, FiniteSets, TLC

\* ------------------------------------------------------------------ bounds
\* Total number of bindMainApi calls made in a behaviour.
MaxBinds == 2
\* Number of retry intervals a single bind is followed through.
MaxRetries == 1
\* Number of exposeWindowApi calls made in a behaviour.
MaxExposes == 2

\* Largest number of properties declared by one class of a generated API.
MaxProps == 2
\* Largest number of own properties (fields) of a generated API instance.
MaxOwnProps == 1

\* Total number of calls made through proxy methods in a behaviour.
MaxCalls == 2
\* Number of callback invocation messages up to which the exposed API
\* fires further events of its own.
MaxCallbackMessages == 2
\* Longest argument list passed in the calls that vary their arguments.
MaxArgs == 3

\* ------------------------------------------------------- program constants
\* Period between attempts to bind an API (_RETRY_MILLIS).
RETRY_MILLIS == 50
\* Initial value of _bindingTimeoutMillis.
DEFAULT_BINDING_TIMEOUT_MILLIS == 4000

\* ------------------------------------------------------------- universes
Windows == {"w1", "w2"}
Restorers == {"none", "restorer"}
\* Values passed to setIpcBindingTimeout.
TimeoutChoices == {0, RETRY_MILLIS, DEFAULT_BINDING_TIMEOUT_MILLIS}

\* A property of an object: its name and whether its value is a function.
Prop(n, isFn) == [name |-> n, fn |-> isFn]

\* Own properties of the universal base object (Object.prototype), as far
\* as the code looks at them.
ObjectPrototype ==
    << Prop(<<"c","o","n","s","t","r","u","c","t","o","r">>, TRUE),
       Prop(<<"h","a","s","O","w","n","P","r","o","p","e","r","t","y">>, TRUE),
       Prop(<<"t","o","S","t","r","i","n","g">>, TRUE) >>

ConstructorProp == Prop(<<"c","o","n","s","t","r","u","c","t","o","r">>, TRUE)

\* An API instance: the name of its class (api.constructor.name) and its
\* prototype chain, the instance's own properties first and the universal
\* base object last.
ApiInstance(cls, levels) == [className |-> cls, chain |-> levels \o <<ObjectPrototype>>]

\* API instances of the exposing process: class A with method m; another
\* class that is also named A, with methods m and n; class B, whose ancestor
\* class declares m and which itself declares n, a private _p and a data
\* field d.
ApiA == ApiInstance(<<"A">>, << <<>>, <<ConstructorProp, Prop(<<"m">>, TRUE)>> >>)
ApiA2 == ApiInstance(<<"A">>, << <<>>, <<ConstructorProp, Prop(<<"m">>, TRUE), Prop(<<"n">>, TRUE)>> >>)
ApiB == ApiInstance(<<"B">>, << <<Prop(<<"d">>, FALSE)>>,
                               <<ConstructorProp, Prop(<<"n">>, TRUE), Prop(<<"_","p">>, TRUE)>>,
                               <<ConstructorProp, Prop(<<"m">>, TRUE)>> >>)

\* Properties a generated API class or instance may declare: methods m and
\* n, a data property m, and methods with the two private prefixes.
PropChoices ==
    { Prop(<<"m">>, TRUE), Prop(<<"m">>, FALSE), Prop(<<"n">>, TRUE),
      Prop(<<"_","p">>, TRUE), Prop(<<"#","q">>, TRUE) }

\* The property lists of at most n properties with distinct names.
PropLists(n) ==
    { l \in UNION { [1..k -> PropChoices] : k \in 0..n } :
        \A i, j \in 1..Len(l) : i # j => l[i].name # l[j].name }

\* Generated instances of a class A that extends an ancestor class: the
\* instance's own properties, then the prototype of A and the prototype of
\* its ancestor, each with its own "constructor" property.
GeneratedApis ==
    { ApiInstance(<<"A">>, << own, <<ConstructorProp>> \o cls, <<ConstructorProp>> \o anc >>) :
        own \in PropLists(MaxOwnProps), cls \in PropLists(MaxProps), anc \in PropLists(MaxProps) }

\* The sets of API instances an exposing process may have constructed.
ApiPools ==
    { {g} : g \in GeneratedApis } \cup { {ApiA, ApiA2}, {ApiA, ApiB}, {ApiA2, ApiB} }

ApiNames == { <<"A">>, <<"B">> }

\* A value of a registration map: undefined, or a list of method names.
Undefined == [def |-> FALSE, names |-> <<>>]
Defined(l) == [def |-> TRUE, names |-> l]

NoProxy == 0

VARIABLES
    bindingTimeoutMillis,   \* [Windows -> Nat]         _bindingTimeoutMillis of each window
    mainApiMap,             \* [Windows -> [ApiNames -> entry]]   _mainApiMap
    boundMainApis,          \* [Windows -> [ApiNames -> proxy id]] _boundMainApis
    listeningForIPC,        \* [Windows -> BOOLEAN]     _listeningForIPC of each window
    ipcListeners,           \* [Processes -> Nat]      pairs of discovery listeners installed
    binds,                  \* Seq of bindMainApi calls and their retry loops
    proxies,                \* Seq of the proxy objects created (index = identity)
    requestChannel,         \* [Windows -> Seq]  API_REQUEST_IPC messages sent by each window
    requestsRead,           \* [Windows -> Nat]  how many of them the host has received
    responseChannel,        \* [Windows -> Seq]  API_RESPONSE_IPC messages sent to each window
    responsesRead,          \* [Windows -> Nat]  how many of them the window has received
    windowApiMap,           \* [ApiNames -> entry]      registry of the exposing process
    installed,              \* Seq of wire names        installHandler calls, in order
    hostListening,          \* BOOLEAN                  _listeningForIPC of the exposing process
    exposed,                \* Seq of API instances     exposeWindowApi calls, in order
    apiPool,                \* the API instances the exposing process has constructed
    windows,                \* the windows that exist (a subset of Windows)
    restorers,              \* the restorer arguments the windows pass (a subset of Restorers)
    bindNames,              \* the API names the windows bind (a subset of ApiNames)
    pendingAtExposure,      \* history: the binds that were waiting when their API was exposed
    callbackIx,             \* Nat                 Restorer.callbackIx of the calling window
    callbackListeners,      \* Seq of [channel, func]  listeners subscribed with onCallback
    calls,                  \* Seq of the calls made through bound proxy methods
    apiCallbacks,           \* Seq of stand-ins    MainApi5._callbacks of the exposed API
    callbackChannel,        \* Seq of callback invocation messages sent to the window
    callbacksRead,          \* Nat                 how many of them the window has received
    localInvocations,       \* Seq of the invocations of the window's local functions
    methodBehaviour         \* what the exposed method n does when it is invoked

\* The state of calls through bound proxies.
callVars == << callbackIx, callbackListeners, calls, apiCallbacks, callbackChannel,
               callbacksRead, localInvocations, methodBehaviour >>

\* The state of exposure and binding.
bindVars == << bindingTimeoutMillis, mainApiMap, boundMainApis, listeningForIPC,
               ipcListeners,
               binds, proxies, requestChannel, requestsRead, responseChannel, responsesRead,
               windowApiMap, installed, hostListening, exposed, apiPool, windows,
               restorers, bindNames, pendingAtExposure >>

vars == << bindVars, callVars >>

\* ---------------------------------------------------------- shared library

\* Mutant: the wire name is the method name alone.
toIpcName_MethodOnly(apiClassName, methodName) == methodName

\* toIpcName: `${apiClassName}:${methodName}`
toIpcName(apiClassName, methodName) == apiClassName \o <<":">> \o methodName

\* Object.getOwnPropertyNames(obj) of one object of a prototype chain.
RECURSIVE OwnPropertyNames(_)
OwnPropertyNames(level) ==
    IF level = <<>> THEN <<>>
    ELSE <<Head(level).name>> \o OwnPropertyNames(Tail(level))

Includes(seq, x) == \E i \in 1..Len(seq) : seq[i] = x

\* getPropertyNames: the own property names of every object of the chain, in
\* chain order, up to the first object that has an own property
\* "hasOwnProperty".
RECURSIVE getPropertyNames(_)
getPropertyNames(chain) ==
    IF chain = <<>> \/ Includes(OwnPropertyNames(Head(chain)),
                                <<"h","a","s","O","w","n","P","r","o","p","e","r","t","y">>)
    THEN <<>>
    ELSE OwnPropertyNames(Head(chain)) \o getPropertyNames(Tail(chain))

\* typeof api[methodName] == "function": the property is looked up along the
\* whole chain and the first object that has it decides.
RECURSIVE IsFunctionProperty(_, _)
IsFunctionProperty(chain, methodName) ==
    IF chain = <<>> THEN FALSE
    ELSE IF \E i \in 1..Len(Head(chain)) : Head(chain)[i].name = methodName
         THEN LET i == CHOOSE j \in 1..Len(Head(chain)) : Head(chain)[j].name = methodName
              IN  Head(chain)[i].fn
         ELSE IsFunctionProperty(Tail(chain), methodName)

\* Mutant: only the "_" prefix marks a private name.
IsPublicName_UnderscoreOnly(methodName) ==
    /\ methodName # <<"c","o","n","s","t","r","u","c","t","o","r">>
    /\ ~(Len(methodName) > 0 /\ methodName[1] \in {"_"})

\* The test of exposeApi on a property name:
\* methodName != "constructor" && !["_", "#"].includes(methodName[0])
IsPublicName(methodName) ==
    /\ methodName # <<"c","o","n","s","t","r","u","c","t","o","r">>
    /\ ~(Len(methodName) > 0 /\ methodName[1] \in {"_", "#"})

\* The loop of exposeApi: the method names pushed, in order.
RECURSIVE ExposedMethodNames(_, _)
ExposedMethodNames(api, names) ==
    IF names = <<>> THEN <<>>
    ELSE (IF IsPublicName(Head(names)) /\ IsFunctionProperty(api.chain, Head(names))
          THEN <<Head(names)>> ELSE <<>>)
         \o ExposedMethodNames(api, Tail(names))

RECURSIVE WireNames(_, _)
WireNames(apiClassName, methodNames) ==
    IF methodNames = <<>> THEN <<>>
    ELSE <<toIpcName(apiClassName, Head(methodNames))>> \o WireNames(apiClassName, Tail(methodNames))

\* Mutant: the early return is missing.
WasPreviouslyExposed_Never(apiMap, apiClassName) == FALSE

\* if (apiMap[apiClassName]) return; // was previously exposed
WasPreviouslyExposed(apiMap, apiClassName) == apiMap[apiClassName].def

\* Mutant: the registry entry is published and no handler is installed.
exposeApi_RegistryOnly(apiMap, handlerLog, api) ==
    IF apiMap[api.className].def
    THEN [apiMap |-> apiMap, handlerLog |-> handlerLog]
    ELSE [apiMap |-> [apiMap EXCEPT ![api.className] =
                         Defined(ExposedMethodNames(api, getPropertyNames(api.chain)))],
          handlerLog |-> handlerLog]

\* exposeApi(apiMap, api, installHandler): the new registry and handler log.
exposeApi(apiMap, handlerLog, api) ==
    IF WasPreviouslyExposed(apiMap, api.className)
    THEN [apiMap |-> apiMap, handlerLog |-> handlerLog]
    ELSE LET methodNames == ExposedMethodNames(api, getPropertyNames(api.chain))
         IN  [apiMap |-> [apiMap EXCEPT ![api.className] = Defined(methodNames)],
              handlerLog |-> handlerLog \o WireNames(api.className, methodNames)]

\* ------------------------------------------------------- binding protocol

\* The exposing process, and all the processes that run the library.
Host == "host"
Processes == Windows \cup {Host}

\* Mutant: the listeners are installed whether or not they already are.
InstallIpcListeners_Unguarded(listening, listeners) ==
    [listening |-> TRUE, listeners |-> listeners + 1]

\* _installIpcListeners(): if (!_listeningForIPC) the listener for
\* API_REQUEST_IPC and the listener for API_RESPONSE_IPC are installed and
\* the flag is set.  Yields the flag and the number of listener pairs.
InstallIpcListeners(listening, listeners) ==
    IF ~listening
    THEN [listening |-> TRUE, listeners |-> listeners + 1]
    ELSE [listening |-> listening, listeners |-> listeners]

\* The listeners of processes that called _installIpcListeners exactly when
\* their flag says so.
ListenersOf(listening, hostListens) ==
    [p \in Processes |->
        IF p = Host THEN (IF hostListens THEN 1 ELSE 0)
        ELSE IF listening[p] THEN 1 ELSE 0]

\* Mutant: the cache of bound APIs is never consulted.
IsBound_Never(w, apiClassName) == FALSE

\* Mutant: a name whose bind has timed out counts as settled.
IsBound_AfterTimeout(w, apiClassName) ==
    \/ boundMainApis[w][apiClassName] # NoProxy
    \/ \E i \in 1..Len(binds) :
          binds[i].win = w /\ binds[i].api = apiClassName /\ binds[i].state = "TIMED_OUT"

\* if (_boundMainApis[apiClassName])
IsBound(w, apiClassName) == boundMainApis[w][apiClassName] # NoProxy

\* Mutant: no request is sent.
SendApiRequest_None(channel, apiClassName) == channel

\* Mutant: the request is sent twice.
SendApiRequest_Twice(channel, apiClassName) == Append(Append(channel, apiClassName), apiClassName)

\* window._affinity_ipc.send(API_REQUEST_IPC, apiClassName)
SendApiRequest(channel, apiClassName) == Append(channel, apiClassName)

\* _attemptBindMainApi: const methodNames = _mainApiMap[apiClassName];
\* if (!methodNames) return false;
AttemptFinds(w, apiClassName) == mainApiMap[w][apiClassName].def

\* Mutant: the check uses the timeout the library started with.
TimeoutReached_Initial(w, elapsedMillis) == elapsedMillis >= DEFAULT_BINDING_TIMEOUT_MILLIS

\* Mutant: the timeout is reached only when the elapsed time exceeds it.
TimeoutReached_Strict(w, elapsedMillis) == elapsedMillis > bindingTimeoutMillis[w]

\* retryUntilTimeout: if (elapsedMillis >= _bindingTimeoutMillis) throw
TimeoutReached(w, elapsedMillis) == elapsedMillis >= bindingTimeoutMillis[w]

\* `Timed out waiting to bind main API '${apiClassName}'`
TimeoutMessage(apiClassName) ==
    [text |-> "Timed out waiting to bind main API", api |-> apiClassName]
NoError == [text |-> "", api |-> <<>>]

\* The proxy object _attemptBindMainApi constructs: one forwarding function
\* per method name, each closing over the API name and the restorer.
NewBoundApi(w, apiClassName, restorer) ==
    [win |-> w, api |-> apiClassName, methodNames |-> mainApiMap[w][apiClassName].names,
     restorer |-> restorer]

\* Mutant: the elapsed time is compared with the timeout before the attempt.
AfterRetry_TimeoutFirst(b, elapsedMillis, caller) ==
    IF elapsedMillis >= bindingTimeoutMillis[b.win]
    THEN [b EXCEPT !.state = "TIMED_OUT", !.elapsed = elapsedMillis, !.attempts = @ + 1,
                   !.timer = FALSE,
                   !.thrown = caller,
                   !.error = [text |-> "Timed out waiting to bind main API", api |-> b.api],
                   !.promise = IF caller = "executor" THEN "rejected" ELSE b.promise]
    ELSE IF mainApiMap[b.win][b.api].def
    THEN [b EXCEPT !.state = "BOUND", !.elapsed = elapsedMillis, !.attempts = @ + 1,
                   !.timer = FALSE,
                   !.promise = "resolved", !.value = Len(proxies) + 1]
    ELSE [b EXCEPT !.state = "DISCOVERING", !.elapsed = elapsedMillis, !.attempts = @ + 1,
                   !.timer = TRUE]

\* One call of retryUntilTimeout(elapsedMillis, attemptFunc, message) for
\* the bind `b`, made from `caller`: "executor" (the Promise executor of
\* bindMainApi) or "timer" (a setTimeout callback).  Yields the bind as the
\* call leaves it; a successful attempt creates and caches a proxy.
AfterRetry(b, elapsedMillis, caller) ==
    IF AttemptFinds(b.win, b.api)
    THEN [b EXCEPT !.state = "BOUND", !.elapsed = elapsedMillis, !.attempts = @ + 1,
                   !.timer = FALSE,
                   !.promise = "resolved", !.value = Len(proxies) + 1]
    ELSE IF TimeoutReached(b.win, elapsedMillis)
    THEN [b EXCEPT !.state = "TIMED_OUT", !.elapsed = elapsedMillis, !.attempts = @ + 1,
                   !.timer = FALSE,
                   !.thrown = caller, !.error = TimeoutMessage(b.api),
                   \* a throw inside the executor rejects the promise; a throw
                   \* inside a timer callback is uncaught and settles nothing
                   !.promise = IF caller = "executor" THEN "rejected" ELSE b.promise]
    ELSE [b EXCEPT !.state = "DISCOVERING", !.elapsed = elapsedMillis, !.attempts = @ + 1,
                   !.timer = TRUE]

\* The caches after the attempt made for bind `b` (old state of the bind).
ProxiesAfter(b) ==
    IF AttemptFinds(b.win, b.api)
    THEN Append(proxies, NewBoundApi(b.win, b.api, b.restorer))
    ELSE proxies

\* Mutant: the cache of bound APIs is shared by all windows.
BoundAfter_AllWindows(b) ==
    IF AttemptFinds(b.win, b.api)
    THEN [w \in Windows |-> [boundMainApis[w] EXCEPT ![b.api] = Len(proxies) + 1]]
    ELSE boundMainApis

BoundAfter(b) ==
    IF AttemptFinds(b.win, b.api)
    THEN [boundMainApis EXCEPT ![b.win][b.api] = Len(proxies) + 1]
    ELSE boundMainApis

FreshBind(w, apiClassName, restorer) ==
    [win |-> w, api |-> apiClassName, restorer |-> restorer, state |-> "UNBOUND",
     elapsed |-> 0, attempts |-> 0, timer |-> FALSE, promise |-> "pending",
     value |-> NoProxy,
     thrown |-> "none", error |-> NoError, fromCache |-> FALSE]

\* bindMainApi(apiClassName, restorer)
BindMainApi(w, apiClassName, restorer) ==
    /\ Len(binds) < MaxBinds
    /\ listeningForIPC' =
          [listeningForIPC EXCEPT ![w] = InstallIpcListeners(@, ipcListeners[w]).listening]
    /\ ipcListeners' =
          [ipcListeners EXCEPT ![w] = InstallIpcListeners(listeningForIPC[w], @).listeners]
    /\ IF IsBound(w, apiClassName)
       THEN /\ binds' = Append(binds,
                   [FreshBind(w, apiClassName, restorer) EXCEPT
                       !.state = "BOUND", !.promise = "resolved",
                       !.value = boundMainApis[w][apiClassName], !.fromCache = TRUE])
            /\ UNCHANGED << requestChannel, proxies, boundMainApis >>
       ELSE /\ requestChannel' =
                   [requestChannel EXCEPT ![w] = SendApiRequest(@, apiClassName)]
            /\ binds' = Append(binds,
                   AfterRetry(FreshBind(w, apiClassName, restorer), 0, "executor"))
            /\ proxies' = ProxiesAfter(FreshBind(w, apiClassName, restorer))
            /\ boundMainApis' = BoundAfter(FreshBind(w, apiClassName, restorer))
    /\ UNCHANGED << bindingTimeoutMillis, mainApiMap, requestsRead, responseChannel,
                    responsesRead, windowApiMap, installed, hostListening, exposed,
                    apiPool, windows, restorers, bindNames, pendingAtExposure >>
    /\ UNCHANGED callVars

\* The setTimeout callback of retryUntilTimeout for bind number i:
\* retryUntilTimeout(elapsedMillis + _RETRY_MILLIS, attemptFunc, message).
RetryTimer(i) ==
    /\ binds[i].timer
    /\ binds[i].elapsed + RETRY_MILLIS <= MaxRetries * RETRY_MILLIS
    /\ binds' = [binds EXCEPT ![i] = AfterRetry(binds[i], binds[i].elapsed + RETRY_MILLIS, "timer")]
    /\ proxies' = ProxiesAfter(binds[i])
    /\ boundMainApis' = BoundAfter(binds[i])
    /\ UNCHANGED << bindingTimeoutMillis, mainApiMap, listeningForIPC, ipcListeners, requestChannel,
                    requestsRead, responseChannel, responsesRead, windowApiMap, installed,
                    hostListening, exposed, apiPool, windows, restorers, bindNames, pendingAtExposure >>
    /\ UNCHANGED callVars

\* setIpcBindingTimeout(millis)
SetIpcBindingTimeout(w, millis) ==
    /\ bindingTimeoutMillis' = [bindingTimeoutMillis EXCEPT ![w] = millis]
    /\ UNCHANGED << mainApiMap, boundMainApis, listeningForIPC, ipcListeners, binds, proxies,
                    requestChannel, requestsRead, responseChannel, responsesRead,
                    windowApiMap, installed, hostListening, exposed, apiPool,
                    windows, restorers, bindNames, pendingAtExposure >>
    /\ UNCHANGED callVars

\* Mutant: the listener answers without looking the name up in the registry.
ApiRegistration_FromCache(apiClassName) ==
    [className |-> apiClassName, methodNames |-> Undefined]

\* Mutant: a name that is not registered is answered with an empty list.
ApiRegistration_EmptyList(apiClassName) ==
    [className |-> apiClassName,
     methodNames |-> IF windowApiMap[apiClassName].def THEN windowApiMap[apiClassName]
                     ELSE Defined(<<>>)]

\* The registration the request listener builds:
\* { className: apiClassName, methodNames: _windowApiMap[apiClassName] }
ApiRegistration(apiClassName) ==
    [className |-> apiClassName, methodNames |-> windowApiMap[apiClassName]]

\* The exposing process receives the next API_REQUEST_IPC message of window
\* w.  Every listener installed for the channel answers at once with the
\* registration held at that instant; without a listener the message is
\* dropped.
HostReceiveRequest(w) ==
    /\ requestsRead[w] < Len(requestChannel[w])
    /\ requestsRead' = [requestsRead EXCEPT ![w] = @ + 1]
    /\ responseChannel' =
          [responseChannel EXCEPT
              ![w] = @ \o [k \in 1..ipcListeners[Host] |->
                              ApiRegistration(requestChannel[w][requestsRead[w] + 1])]]
    /\ UNCHANGED << bindingTimeoutMillis, mainApiMap, boundMainApis, listeningForIPC, ipcListeners,
                    binds,
                    proxies, requestChannel, responsesRead, windowApiMap, installed,
                    hostListening, exposed, apiPool, windows, restorers, bindNames, pendingAtExposure >>
    /\ UNCHANGED callVars

\* Mutant: the registry cache keeps the latest registration only.
StoreRegistration_Reset(map, api) ==
    [a \in DOMAIN map |-> IF a = api.className THEN api.methodNames ELSE Undefined]

\* The API_RESPONSE_IPC listener: _mainApiMap[api.className] = api.methodNames
StoreRegistration(map, api) == [map EXCEPT ![api.className] = api.methodNames]

\* Window w receives the next API_RESPONSE_IPC message sent to it.
WindowReceiveResponse(w) ==
    /\ responsesRead[w] < Len(responseChannel[w])
    /\ responsesRead' = [responsesRead EXCEPT ![w] = @ + 1]
    /\ mainApiMap' =
          IF ipcListeners[w] > 0
          THEN [mainApiMap EXCEPT
                   ![w] = StoreRegistration(@, responseChannel[w][responsesRead[w] + 1])]
          ELSE mainApiMap
    /\ UNCHANGED << bindingTimeoutMillis, boundMainApis, listeningForIPC, ipcListeners,
                    binds, proxies,
                    requestChannel, requestsRead, responseChannel, windowApiMap, installed,
                    hostListening, exposed, apiPool, windows, restorers, bindNames, pendingAtExposure >>
    /\ UNCHANGED callVars

\* exposeWindowApi(windowApi, restorer): installs the listeners, then
\* exposeApi(_windowApiMap, windowApi, installHandler).
ExposeWindowApi(api) ==
    /\ Len(exposed) < MaxExposes
    /\ hostListening' = InstallIpcListeners(hostListening, ipcListeners[Host]).listening
    /\ ipcListeners' =
          [ipcListeners EXCEPT ![Host] = InstallIpcListeners(hostListening, @).listeners]
    /\ windowApiMap' = exposeApi(windowApiMap, installed, api).apiMap
    /\ installed' = exposeApi(windowApiMap, installed, api).handlerLog
    /\ exposed' = Append(exposed, api)
    /\ pendingAtExposure' =
          IF windowApiMap[api.className].def THEN pendingAtExposure
          ELSE pendingAtExposure \cup
               { i \in 1..Len(binds) : binds[i].api = api.className /\ binds[i].timer }
    /\ UNCHANGED << bindingTimeoutMillis, mainApiMap, boundMainApis, listeningForIPC, binds,
                    proxies, requestChannel, requestsRead, responseChannel, responsesRead,
                    apiPool, windows, restorers, bindNames >>
    /\ UNCHANGED callVars

\* _installIpcListeners() in the exposing process, called by its first
\* exposeWindowApi or bindMainApi (here: one for an API outside the model).
HostInstallListeners ==
    /\ ~hostListening
    /\ hostListening' = InstallIpcListeners(hostListening, ipcListeners[Host]).listening
    /\ ipcListeners' =
          [ipcListeners EXCEPT ![Host] = InstallIpcListeners(hostListening, @).listeners]
    /\ UNCHANGED << bindingTimeoutMillis, mainApiMap, boundMainApis, listeningForIPC, binds,
                    proxies, requestChannel, requestsRead, responseChannel, responsesRead,
                    windowApiMap, installed, exposed, apiPool, windows, restorers, bindNames,
                    pendingAtExposure >>
    /\ UNCHANGED callVars

\* ------------------------------------------------------------------ values

\* A JavaScript value: its typeof-like type ("undefined", "null", "number",
\* "string", "boolean", "object", "function"), the payload of a primitive
\* or the identity of a function, the name of its constructor, whether it
\* is an instance of Error, and its own properties.  A property is a
\* triple <<name, type, payload>>: property values are primitives.
Primitive(t, payload) ==
    [type |-> t, v |-> payload, className |-> "", isError |-> FALSE, props |-> {}]
UndefinedValue == Primitive("undefined", "")
NullValue == Primitive("null", "")
NumberValue(payload) == Primitive("number", payload)
StringValue(payload) == Primitive("string", payload)
BooleanValue(payload) == Primitive("boolean", payload)
ObjectValue(cls, err, ps) ==
    [type |-> "object", v |-> "", className |-> cls, isError |-> err, props |-> ps]
FunctionValue(id) ==
    [type |-> "function", v |-> id, className |-> "Function", isError |-> FALSE, props |-> {}]
DataProp(name, val) == <<name, val.type, val.v>>

\* obj[name]; undefined when obj has no such property.
GetProp(obj, name) ==
    IF \E p \in obj.props : p[1] = name
    THEN LET p == CHOOSE q \in obj.props : q[1] = name IN Primitive(p[2], p[3])
    ELSE UndefinedValue

\* delete obj[name]
DeleteProp(obj, name) == [obj EXCEPT !.props = { p \in @ : p[1] # name }]

\* The enumerable own properties: message and stack of an Error are not.
Enumerable(obj) ==
    IF obj.isError THEN { p \in obj.props : p[1] \notin {"message", "stack"} }
    ELSE obj.props

\* Object.assign(target, source): the properties of target, overwritten
\* by the enumerable own properties of source (none for null).
ObjectAssign(target, sourceProps) ==
    [target EXCEPT !.props =
        { p \in @ : ~\E q \in sourceProps : q[1] = p[1] } \cup sourceProps]

\* Whether a value counts as true in a condition.
Truthy(val) ==
    CASE val.type \in {"undefined", "null"} -> FALSE
      [] val.type = "boolean" -> val.v = "true"
      [] val.type = "number" -> val.v # "0"
      [] val.type = "string" -> val.v # ""
      [] OTHER -> TRUE

\* new Error(message): message and stack are own properties.
NewError(cls, message) ==
    ObjectValue(cls, TRUE,
        { <<"message", "string", message>>,
          <<"stack", "string", cls \o ": " \o message \o "\n    at <anonymous>">> })

\* What a value becomes when Electron passes it between processes: an
\* object arrives as a plain object, an Error with its message only.
Clone(val) ==
    IF val.type # "object" THEN val
    ELSE IF val.isError
    THEN ObjectValue("Error", TRUE, { p \in val.props : p[1] = "message" })
    ELSE ObjectValue("Object", FALSE, val.props)

\* An argument list as it arrives in the other process.
CloneAll(list) == [i \in 1..Len(list) |-> Clone(list[i])]

\* ---------------------------------------------------------------- Restorer

\* RestorationInfo; NoInfo stands for null and undefined.
NoInfo ==
    [def |-> FALSE, argIndex |-> -1, className |-> "", isError |-> FALSE, isCallback |-> FALSE]

\* Mutant: null, whose typeof is "object", is not set apart.
makeRestorationInfo_NullAsObject(obj) ==
    IF obj.type \notin {"null", "object", "function"}
    THEN [def |-> FALSE, argIndex |-> -1, className |-> "", isError |-> FALSE,
          isCallback |-> FALSE]
    ELSE [def |-> TRUE, argIndex |-> -1, className |-> obj.className,
          isError |-> obj.isError, isCallback |-> obj.type = "function"]

\* Restorer.makeRestorationInfo(obj)
makeRestorationInfo(obj) ==
    IF obj.type = "null" THEN NoInfo
    ELSE IF obj.type # "object" /\ obj.type # "function" THEN NoInfo
    ELSE [def |-> TRUE, argIndex |-> -1, className |-> obj.className,
          isError |-> obj.isError, isCallback |-> obj.type = "function"]

\* new __ThrownNonObject(thrownValue)
ThrownNonObject(thrownValue) ==
    ObjectValue("__ThrownNonObject", FALSE,
        { <<"_affinity_rethrow", "boolean", "true">>, DataProp("thrownValue", thrownValue) })

\* Mutant: the class is taken from the map without looking at the name.
ApplyRestorer_AnyName(restorer, className, obj) ==
    IF restorer = "restorer" /\ obj.type = "object"
    THEN ObjectValue("Catter", FALSE, obj.props)
    ELSE obj

\* A restorer function applied to a class name and a plain object.  The
\* restorer "restorer" is genericRestorer bound to a map with class Catter,
\* whose restoreClass builds a Catter from the fields of the object.
ApplyRestorer(restorer, className, obj) ==
    IF restorer = "restorer" /\ className = "Catter" /\ obj.type = "object"
    THEN ObjectValue("Catter", FALSE, obj.props)
    ELSE obj

\* Mutant: the test for the wrapper of non-object values is inverted.
restoreValue_Inverted(obj, info, restorer) ==
    IF info.def
    THEN IF info.className # "__ThrownNonObject"
         THEN ThrownNonObject(GetProp(obj, "thrownValue"))
         ELSE IF restorer # "none" THEN ApplyRestorer(restorer, info.className, obj)
         ELSE obj
    ELSE obj

\* Mutant: the restorer function is never asked.
restoreValue_NoRestorer(obj, info, restorer) ==
    IF info.def /\ info.className = "__ThrownNonObject"
    THEN ThrownNonObject(GetProp(obj, "thrownValue"))
    ELSE obj

\* Restorer.restoreValue(obj, info, restorer)
restoreValue(obj, info, restorer) ==
    IF info.def
    THEN IF info.className = "__ThrownNonObject"
         THEN ThrownNonObject(GetProp(obj, "thrownValue"))
         ELSE IF restorer # "none" THEN ApplyRestorer(restorer, info.className, obj)
         ELSE obj
    ELSE obj

\* Mutant: the message of a thrown Error is not copied.
makeRethrownReturnValue_NoMessage(thrown) ==
    IF thrown.type \notin {"object", "null"}
    THEN [value |-> ThrownNonObject(thrown),
          info |-> makeRestorationInfo(ThrownNonObject(thrown))]
    ELSE [value |-> DeleteProp(
                        ObjectAssign(ObjectValue("Object", FALSE,
                                         { <<"_affinity_rethrow", "boolean", "true">> }),
                                     IF thrown.type = "null" THEN {} ELSE Enumerable(thrown)),
                        "stack"),
          info |-> makeRestorationInfo(thrown)]

\* Mutant: the stack of the returned object is not deleted.
makeRethrownReturnValue_KeepStack(thrown) ==
    IF thrown.type \notin {"object", "null"}
    THEN [value |-> ThrownNonObject(thrown),
          info |-> [def |-> TRUE, argIndex |-> -1, className |-> "__ThrownNonObject",
                    isError |-> FALSE, isCallback |-> FALSE]]
    ELSE [value |-> ObjectAssign(
                        ObjectAssign(ObjectValue("Object", FALSE,
                                         { <<"_affinity_rethrow", "boolean", "true">> }),
                                     IF thrown.isError
                                     THEN { DataProp("message", GetProp(thrown, "message")) }
                                     ELSE {}),
                        IF thrown.type = "null" THEN {} ELSE Enumerable(thrown)),
          info |-> makeRestorationInfo(thrown)]

\* Restorer.makeRethrownReturnValue(thrown): the pair [value, info].
makeRethrownReturnValue(thrown) ==
    IF thrown.type \notin {"object", "null"}
    THEN [value |-> ThrownNonObject(thrown),
          info |-> makeRestorationInfo(ThrownNonObject(thrown))]
    ELSE LET marked == ObjectValue("Object", FALSE, { <<"_affinity_rethrow", "boolean", "true">> })
             withMessage ==
                 IF thrown.isError
                 THEN ObjectAssign(marked, { DataProp("message", GetProp(thrown, "message")) })
                 ELSE marked
             returnedError ==
                 ObjectAssign(withMessage, IF thrown.type = "null" THEN {} ELSE Enumerable(thrown))
         IN  [value |-> DeleteProp(returnedError, "stack"),
              info |-> makeRestorationInfo(thrown)]

\* Mutant: every defined value counts as thrown.
wasThrownValue_AnyDefined(value) == value.type \notin {"undefined", "null"}

\* Restorer.wasThrownValue(value): value != undefined && value._affinity_rethrow
wasThrownValue(value) ==
    /\ value.type \notin {"undefined", "null"}
    /\ Truthy(GetProp(value, "_affinity_rethrow"))

\* The TypeError raised by reading a property of null.
NullPropertyTypeError(name) ==
    NewError("TypeError", "Cannot read properties of null (reading '" \o name \o "')")

\* Mutant: a boxed non-object value is not unboxed.
restoreThrownValue_NoUnbox(value, info, restorer) ==
    [raised |-> FALSE,
     value |-> restoreValue(DeleteProp(value, "_affinity_rethrow"), info, restorer)]

\* Mutant: the stack of an Error is left as the constructor made it.
restoreThrownValue_KeepsNewStack(value, info, restorer) ==
    LET restored == restoreValue(DeleteProp(value, "_affinity_rethrow"), info, restorer)
    IN  IF restored.type = "object" /\ restored.className = "__ThrownNonObject"
        THEN [raised |-> FALSE, value |-> GetProp(restored, "thrownValue")]
        ELSE IF ~restored.isError /\ ~info.def
        THEN [raised |-> TRUE, value |-> NullPropertyTypeError("isError")]
        ELSE [raised |-> FALSE,
              value |-> IF ~restored.isError /\ info.isError
                        THEN ObjectAssign(NewError("Error", GetProp(restored, "message").v),
                                          Enumerable(DeleteProp(restored, "message")))
                        ELSE restored]

\* Mutant: the generic Error is made from the message alone.
restoreThrownValue_MessageOnly(value, info, restorer) ==
    LET restored == restoreValue(DeleteProp(value, "_affinity_rethrow"), info, restorer)
    IN  IF restored.type = "object" /\ restored.className = "__ThrownNonObject"
        THEN [raised |-> FALSE, value |-> GetProp(restored, "thrownValue")]
        ELSE IF ~restored.isError /\ ~info.def
        THEN [raised |-> TRUE, value |-> NullPropertyTypeError("isError")]
        ELSE LET asError ==
                     IF ~restored.isError /\ info.isError
                     THEN NewError("Error", GetProp(restored, "message").v)
                     ELSE restored
                 stack == asError.className \o ": " \o GetProp(asError, "message").v
                              \o "\n\tin main process"
             IN  [raised |-> FALSE,
                  value |-> IF asError.isError
                            THEN ObjectAssign(asError, { <<"stack", "string", stack>> })
                            ELSE asError]

\* Restorer.restoreThrownValue(value, info, restorer): the value it returns,
\* or (raised) the error it raises itself.
restoreThrownValue(value, info, restorer) ==
    LET restored == restoreValue(DeleteProp(value, "_affinity_rethrow"), info, restorer)
    IN  IF restored.type = "object" /\ restored.className = "__ThrownNonObject"
        THEN [raised |-> FALSE, value |-> GetProp(restored, "thrownValue")]
        ELSE IF ~restored.isError /\ ~info.def
        THEN [raised |-> TRUE, value |-> NullPropertyTypeError("isError")]
        ELSE LET asError ==
                     IF ~restored.isError /\ info.isError
                     THEN ObjectAssign(NewError("Error", GetProp(restored, "message").v),
                                       Enumerable(DeleteProp(restored, "message")))
                     ELSE restored
                 stack == asError.className \o ": " \o GetProp(asError, "message").v
                              \o "\n\tin main process"
             IN  [raised |-> FALSE,
                  value |-> IF asError.isError
                            THEN ObjectAssign(asError, { <<"stack", "string", stack>> })
                            ELSE asError]

\* Mutant: the name does not carry the counter.
CallbackName_NoCounter(ix) == "_affinity_event_callback_"

\* `_affinity_event_callback_${n}`
CallbackName(ix) == "_affinity_event_callback_" \o ToString(ix)

\* Mutant: the counter is read but not advanced.
NextCallbackIx_Same(ix) == ix

\* ++callbackIx
NextCallbackIx(ix) == ix + 1

\* callbacks[name] = value on an object whose entries are kept in insertion
\* order: an existing key keeps its place and takes the new value.
PutEntry(entries, name, value) ==
    IF \E k \in 1..Len(entries) : entries[k].name = name
    THEN [k \in 1..Len(entries) |->
             IF entries[k].name = name THEN [name |-> name, value |-> value] ELSE entries[k]]
    ELSE Append(entries, [name |-> name, value |-> value])

\* The restoration information pushed as the last element of an argument
\* list.
InfoList(infos) == [type |-> "infos", infos |-> infos]

\* The loop of makeArgsRestorable from position i (argument index i - 1).
RECURSIVE makeArgsRestorableFrom(_, _)
makeArgsRestorableFrom(i, acc) ==
    IF i > Len(acc.args) THEN acc
    ELSE LET info == makeRestorationInfo(acc.args[i])
         IN  IF ~info.def THEN makeArgsRestorableFrom(i + 1, acc)
             ELSE IF info.isCallback
             THEN LET ix == NextCallbackIx(acc.callbackIx)
                  IN  makeArgsRestorableFrom(i + 1,
                          [args |-> [acc.args EXCEPT ![i] = StringValue(CallbackName(ix))],
                           infos |-> Append(acc.infos, [info EXCEPT !.argIndex = i - 1]),
                           callbacks |-> PutEntry(acc.callbacks, CallbackName(ix), acc.args[i]),
                           callbackIx |-> ix])
             ELSE makeArgsRestorableFrom(i + 1,
                      [acc EXCEPT !.infos = Append(@, [info EXCEPT !.argIndex = i - 1])])

\* Restorer.makeArgsRestorable(args) with callbackIx = ix: the argument
\* list as it leaves, the callbacks it returns, the new callbackIx.
makeArgsRestorable(args, ix) ==
    LET r == makeArgsRestorableFrom(1, [args |-> args, infos |-> <<>>,
                                        callbacks |-> <<>>, callbackIx |-> ix])
    IN  [args |-> Append(r.args, InfoList(r.infos)), callbacks |-> r.callbacks,
         callbackIx |-> r.callbackIx]

\* The loop of restoreArgs from argument index argIndex.
RECURSIVE restoreArgsFrom(_, _, _, _, _)
restoreArgsFrom(argIndex, infoIndex, acc, infos, restorer) ==
    IF argIndex >= Len(acc.args) THEN acc
    ELSE LET found == infoIndex < Len(infos) /\ argIndex = infos[infoIndex + 1].argIndex
             info == IF found THEN infos[infoIndex + 1] ELSE NoInfo
             value == restoreValue(acc.args[argIndex + 1], info, restorer)
         IN  restoreArgsFrom(argIndex + 1, IF found THEN infoIndex + 1 ELSE infoIndex,
                 [args |-> [acc.args EXCEPT ![argIndex + 1] = value],
                  callbacks |-> IF info.def /\ info.isCallback
                                THEN PutEntry(acc.callbacks, value.v, argIndex)
                                ELSE acc.callbacks],
                 infos, restorer)

\* Mutant: the map of callback names is returned empty.
restoreArgs_NoCallbacks(args, restorer) ==
    [restoreArgsFrom(0, 0, [args |-> SubSeq(args, 1, Len(args) - 1), callbacks |-> <<>>],
                     args[Len(args)].infos, restorer)
        EXCEPT !.callbacks = <<>>]

\* Restorer.restoreArgs(args, restorer): the argument list as it leaves and
\* the map of callback names to argument indexes it returns.
restoreArgs(args, restorer) ==
    restoreArgsFrom(0, 0, [args |-> SubSeq(args, 1, Len(args) - 1), callbacks |-> <<>>],
                    args[Len(args)].infos, restorer)

\* ------------------------------------------------------------ proxy calls

\* The local functions of the calling window.
LocalFunctions == { FunctionValue("f1"), FunctionValue("f2") }

\* The argument lists the window passes: a callback to onFunctionCall
\* (method m); nothing, or a number between objects of the classes Catter,
\* Joiner and Object, to method n.
CallArgs(methodName) ==
    IF methodName = <<"m">> THEN { <<f>> : f \in LocalFunctions }
    ELSE { <<>>,
           << ObjectValue("Catter", FALSE, { <<"s1", "string", "a">>, <<"s2", "string", "b">> }),
              NumberValue("7"),
              ObjectValue("Joiner", FALSE, { <<"x", "number", "1">> }),
              ObjectValue("Object", FALSE, { <<"x", "number", "1">> }) >> }

\* The values an argument may be where the arguments vary: a number, null,
\* a plain object and the local functions.
ArgValues ==
    { NumberValue("7"), NullValue, ObjectValue("Object", FALSE, { <<"x", "number", "1">> }) }
    \cup LocalFunctions

\* The argument lists of at most n of those values.
ArgLists(n) == UNION { [1..k -> ArgValues] : k \in 0..n }

\* The argument lists the exposed API passes to its callbacks.
EventArgs ==
    { << StringValue("Event 1 Happened"), NumberValue("1") >>,
      << StringValue("ev"), NumberValue("7") >> }

\* What a method of the exposed API may do: return a value, throw a value
\* wrapped in RelayedError, or throw a value that is not wrapped.
Returns(val) == [kind |-> "return", value |-> val]
Relays(val) == [kind |-> "relay", value |-> val]
Faults(val) == [kind |-> "fault", value |-> val]
ReturnsUndefined == Returns(UndefinedValue)
MethodBehaviours ==
    { ReturnsUndefined,
      Returns(NullValue),
      Returns(NumberValue("7")),
      Returns(ObjectValue("Object", FALSE, { <<"x", "number", "1">> })),
      Returns(ObjectValue("Catter", FALSE, { <<"x", "number", "1">> })),
      Returns(ObjectValue("Object", FALSE, { <<"_affinity_rethrow", "boolean", "true">>,
                                             <<"x", "number", "1">> })),
      Relays(NewError("Error", "boom")),
      Relays(ObjectValue("Object", FALSE, { <<"x", "number", "1">> })),
      Relays(ObjectValue("Catter", FALSE, { <<"x", "number", "1">> })),
      Relays(NumberValue("7")),
      Relays(StringValue("s")),
      Relays(UndefinedValue),
      Relays(NullValue),
      Faults(NewError("Error", "bug")),
      Returns(ObjectValue("Joiner", FALSE, { <<"x", "number", "1">>, <<"s", "string", "a">> })),
      Relays(ObjectAssign(NewError("Error", "bad creds"), { <<"code", "string", "BAD_CREDS">> })),
      Relays(NewError("MyError", "denied")),
      Relays(NumberValue("0")),
      Relays(NumberValue("42")),
      Relays(StringValue("")),
      Relays(BooleanValue("true")),
      Relays(BooleanValue("false")) }

\* The restorer the exposing process passed when it exposed the API.
HostRestorer == "restorer"

NoResponse == [value |-> UndefinedValue, info |-> NoInfo]

\* window._affinity_ipc.onCallback(eventName, callback) for every entry of
\* the callbacks makeArgsRestorable returned: each adds a listener that
\* forwards the invocations arriving on the channel to the function.
\* Mutant: subscribing the callbacks of a call drops the earlier listeners.
SubscribeAll_Replace(listeners, callbacks) ==
    [k \in 1..Len(callbacks) |-> [channel |-> callbacks[k].name, func |-> callbacks[k].value]]

\* Mutant: the callbacks are not subscribed.
SubscribeAll_None(listeners, callbacks) == listeners

RECURSIVE SubscribeAll(_, _)
SubscribeAll(listeners, callbacks) ==
    IF callbacks = <<>> THEN listeners
    ELSE SubscribeAll(Append(listeners, [channel |-> Head(callbacks).name,
                                         func |-> Head(callbacks).value]),
                      Tail(callbacks))

\* What restoreArgs made of the arguments of a call that no handler has
\* received.
NotRestored == [args |-> <<>>, callbacks |-> <<>>]

\* The handler of a call that no handler has received.
NoHandler == [ipcName |-> <<>>, api |-> <<>>, method |-> <<>>]

\* A call of the forwarding function of proxy p for a method, up to its
\* await: the arguments are made restorable, the callbacks subscribed and
\* the arguments sent with invoke on the method's wire name.
CallProxy(p, methodName, args) ==
    /\ Len(calls) < MaxCalls
    /\ LET made == makeArgsRestorable(args, callbackIx)
       IN  /\ callbackIx' = made.callbackIx
           /\ callbackListeners' = SubscribeAll(callbackListeners, made.callbacks)
           /\ calls' = Append(calls,
                  [proxy |-> p, method |-> methodName,
                   ipcName |-> toIpcName(proxies[p].api, methodName),
                   args |-> args, wire |-> made.args, received |-> <<>>,
                   callbacks |-> made.callbacks,
                   restored |-> NotRestored, handledBy |-> NoHandler,
                   state |-> "invoked",
                   outcome |-> ReturnsUndefined, response |-> NoResponse,
                   result |-> UndefinedValue])
    /\ UNCHANGED << apiCallbacks, callbackChannel, callbacksRead, localInvocations,
                    methodBehaviour >>
    /\ UNCHANGED bindVars

\* The function the handler passes to the method in place of a callback
\* argument: invoking it sends its arguments on the callback's channel.
StandIn(channel) == FunctionValue(channel)

\* The restored arguments with every callback argument replaced by its
\* stand-in.
RECURSIVE WithStandIns(_, _)
WithStandIns(args, callbacks) ==
    IF callbacks = <<>> THEN args
    ELSE WithStandIns([args EXCEPT ![Head(callbacks).value + 1] = StandIn(Head(callbacks).name)],
                      Tail(callbacks))

\* The invocation messages sent when each of the callbacks is invoked with
\* the arguments eventArgs (MainApi5._onEvent).  The call and the argument
\* index a stand-in was made for are history.
RECURSIVE onEvent(_, _)
onEvent(callbacks, eventArgs) ==
    IF callbacks = <<>> THEN <<>>
    ELSE << [channel |-> Head(callbacks).fn.v, args |-> eventArgs,
             call |-> Head(callbacks).call, argIndex |-> Head(callbacks).argIndex] >>
         \o onEvent(Tail(callbacks), eventArgs)

\* What the handler answers for what the method did: [value, info] of a
\* returned value, the rethrown return value of a relayed one.
HandlerResponse(outcome) ==
    IF outcome.kind = "relay"
    THEN [value |-> Clone(makeRethrownReturnValue(outcome.value).value),
          info |-> makeRethrownReturnValue(outcome.value).info]
    ELSE [value |-> Clone(outcome.value), info |-> makeRestorationInfo(outcome.value)]

\* Mutant: the handler answers whatever the method did.
HandlerAnswers_Always(outcome) == TRUE

\* Whether the handler answers the caller: a thrown value that is not
\* wrapped as relayable is thrown on in the exposing process instead.
HandlerAnswers(outcome) == outcome.kind # "fault"

\* exposeApi: installHandler(toIpcName(apiClassName, methodName), method) for
\* every method name it pushes.  The handlers installed for a registry, each
\* with its wire name, the API it belongs to and the method it invokes.
InstalledHandlers(apiMap) ==
    UNION { { [ipcName |-> toIpcName(a, apiMap[a].names[k]), api |-> a,
               method |-> apiMap[a].names[k]] : k \in 1..Len(apiMap[a].names) }
            : a \in { x \in ApiNames : apiMap[x].def } }

\* Mutant: a handler receives the invocations of every API's method of its
\* name.
HandlerFor_ByMethodName(ipcName) ==
    { h \in InstalledHandlers(windowApiMap) :
        \E a \in ApiNames : toIpcName(a, h.method) = ipcName }

\* The handlers that receive an invocation sent on a wire name: those
\* installed under that name.
HandlerFor(ipcName) ==
    { h \in InstalledHandlers(windowApiMap) : h.ipcName = ipcName }

\* The callbacks kept by the instance of one API (MainApi5._callbacks).
OwnCallbacks(callbacks, api) == SelectSeq(callbacks, LAMBDA e : e.api = api)

\* The handler installed for a wire name receives the invocation of call c:
\* it restores the arguments, invokes its method on its API and answers.
\* Method m is MainApi5.onFunctionCall: it keeps the callback and fires an
\* event; a value that is not a function cannot be invoked, which is a
\* fault.  Method n does what methodBehaviour says.  A fault sends no answer.
HostHandleInvoke(c) ==
    /\ calls[c].state = "invoked"
    /\ \E h \in HandlerFor(calls[c].ipcName) :
       LET restored == restoreArgs(CloneAll(calls[c].wire), HostRestorer)
           args == WithStandIns(restored.args, restored.callbacks)
           isEvent == h.method = <<"m">>
           registered == Append(apiCallbacks,
                                [fn |-> args[1], call |-> c, argIndex |-> 0, api |-> h.api])
           own == OwnCallbacks(registered, h.api)
           outcome ==
               IF ~isEvent THEN methodBehaviour
               ELSE IF \A k \in 1..Len(own) : own[k].fn.type = "function"
               THEN ReturnsUndefined
               ELSE Faults(NewError("TypeError", "callback is not a function"))
       IN  /\ apiCallbacks' = IF isEvent THEN registered ELSE apiCallbacks
           /\ callbackChannel' =
                  IF isEvent /\ outcome.kind = "return"
                  THEN callbackChannel \o
                       onEvent(own, << StringValue("Event 1 Happened"), NumberValue("1") >>)
                  ELSE callbackChannel
           /\ calls' = [calls EXCEPT
                  ![c].received = args,
                  ![c].restored = restored,
                  ![c].handledBy = h,
                  ![c].outcome = outcome,
                  ![c].state = IF HandlerAnswers(outcome) THEN "responded" ELSE "faulted",
                  ![c].response = IF HandlerAnswers(outcome) THEN HandlerResponse(outcome)
                                  ELSE NoResponse]
    /\ UNCHANGED << callbackIx, callbackListeners, callbacksRead, localInvocations,
                    methodBehaviour >>
    /\ UNCHANGED bindVars

\* Mutant: the handler of a window API builds stand-ins for the callbacks.
WindowApiReceives_StandIns(restored) == WithStandIns(restored.args, restored.callbacks)

\* The handler exposeWindowApi installs: Restorer.restoreArgs(args, restorer);
\* method.bind(windowApi)(...args).  The method gets the argument list as
\* restoreArgs left it; the map restoreArgs returns is not used.
WindowApiReceives(restored) == restored.args

\* The handler exposeWindowApi installed for a wire name receives the
\* message of call c: it restores the arguments and invokes its method.
\* Nothing is sent back.
WindowApiHandle(c) ==
    /\ calls[c].state = "invoked"
    /\ \E h \in HandlerFor(calls[c].ipcName) :
       LET restored == restoreArgs(CloneAll(calls[c].wire), HostRestorer)
       IN  calls' = [calls EXCEPT
                  ![c].received = WindowApiReceives(restored),
                  ![c].restored = restored,
                  ![c].handledBy = h,
                  ![c].state = "delivered"]
    /\ UNCHANGED << callbackIx, callbackListeners, apiCallbacks, callbackChannel,
                    callbacksRead, localInvocations, methodBehaviour >>
    /\ UNCHANGED bindVars

\* The exposed API fires an event of its own: MainApi5._onEvent(arg1, arg2).
HostOnEvent(eventArgs) ==
    /\ Len(callbackChannel) + Len(apiCallbacks) <= MaxCallbackMessages
    /\ \E a \in { apiCallbacks[k].api : k \in 1..Len(apiCallbacks) } :
          callbackChannel' = callbackChannel \o onEvent(OwnCallbacks(apiCallbacks, a), eventArgs)
    /\ UNCHANGED << callbackIx, callbackListeners, calls, apiCallbacks, callbacksRead,
                    localInvocations, methodBehaviour >>
    /\ UNCHANGED bindVars

\* The forwarding function after its await: what the call does with the
\* response [returnValue, info].
ForwardingResult(response, restorer) ==
    IF wasThrownValue(response.value)
    THEN [state |-> "threw",
          result |-> restoreThrownValue(response.value, response.info, restorer).value]
    ELSE [state |-> "returned",
          result |-> restoreValue(response.value, response.info, restorer)]

\* Mutant: the wait for the response ends when the binding timeout is 0.
ResponseArrived_OrBindingTimeout(c) ==
    \/ calls[c].state = "responded"
    \/ calls[c].state = "faulted" /\ bindingTimeoutMillis[proxies[calls[c].proxy].win] = 0

\* await window._affinity_ipc.invoke(...): the call goes on when its
\* response has arrived, and on nothing else.
ResponseArrived(c) == calls[c].state = "responded"

\* The window receives the response of call c.
WindowReceiveResult(c) ==
    /\ ResponseArrived(c)
    /\ LET r == ForwardingResult(calls[c].response, proxies[calls[c].proxy].restorer)
       IN  calls' = [calls EXCEPT ![c].state = r.state, ![c].result = r.result]
    /\ UNCHANGED << callbackIx, callbackListeners, apiCallbacks, callbackChannel,
                    callbacksRead, localInvocations, methodBehaviour >>
    /\ UNCHANGED bindVars

\* The invocations made when a message arrives on a callback channel: every
\* listener of the channel calls its function with the message's arguments.
RECURSIVE Deliver(_, _, _)
Deliver(listeners, message, index) ==
    IF listeners = <<>> THEN <<>>
    ELSE (IF Head(listeners).channel = message.channel
          THEN << [func |-> Head(listeners).func, args |-> message.args, message |-> index] >>
          ELSE <<>>)
         \o Deliver(Tail(listeners), message, index)

\* The window receives the next callback invocation message.
WindowReceiveCallback ==
    /\ callbacksRead < Len(callbackChannel)
    /\ callbacksRead' = callbacksRead + 1
    /\ localInvocations' = localInvocations \o
           Deliver(callbackListeners, callbackChannel[callbacksRead + 1], callbacksRead + 1)
    /\ UNCHANGED << callbackIx, callbackListeners, calls, apiCallbacks, callbackChannel,
                    methodBehaviour >>
    /\ UNCHANGED bindVars

\* ----------------------------------------------------------- specification

Init ==
    /\ bindingTimeoutMillis = [w \in Windows |-> DEFAULT_BINDING_TIMEOUT_MILLIS]
    /\ mainApiMap = [w \in Windows |-> [a \in ApiNames |-> Undefined]]
    /\ boundMainApis = [w \in Windows |-> [a \in ApiNames |-> NoProxy]]
    /\ listeningForIPC = [w \in Windows |-> FALSE]
    /\ binds = <<>>
    /\ proxies = <<>>
    /\ requestChannel = [w \in Windows |-> <<>>]
    /\ requestsRead = [w \in Windows |-> 0]
    /\ responseChannel = [w \in Windows |-> <<>>]
    /\ responsesRead = [w \in Windows |-> 0]
    /\ windowApiMap = [a \in ApiNames |-> Undefined]
    /\ installed = <<>>
    /\ hostListening = FALSE
    /\ ipcListeners = ListenersOf(listeningForIPC, hostListening)
    /\ exposed = <<>>
    /\ apiPool = {ApiA}
    /\ windows = {"w1"}
    /\ restorers = {"none"}
    /\ bindNames = { <<"A">> }
    /\ pendingAtExposure = {}
    /\ callbackIx = 0
    /\ callbackListeners = <<>>
    /\ calls = <<>>
    /\ apiCallbacks = <<>>
    /\ callbackChannel = <<>>
    /\ callbacksRead = 0
    /\ localInvocations = <<>>
    /\ methodBehaviour = ReturnsUndefined

Next ==
    \/ \E w \in windows, a \in bindNames, r \in restorers : BindMainApi(w, a, r)
    \/ \E i \in 1..Len(binds) : RetryTimer(i)
    \/ \E w \in windows, millis \in TimeoutChoices : SetIpcBindingTimeout(w, millis)
    \/ \E w \in windows : HostReceiveRequest(w)
    \/ \E w \in windows : WindowReceiveResponse(w)
    \/ \E api \in apiPool : ExposeWindowApi(api)
    \/ HostInstallListeners

Spec == Init /\ [][Next]_vars

\* Exposure alone: an exposing process with any pool of API instances and
\* no binding window.
InitExpose ==
    /\ bindingTimeoutMillis = [w \in Windows |-> DEFAULT_BINDING_TIMEOUT_MILLIS]
    /\ mainApiMap = [w \in Windows |-> [a \in ApiNames |-> Undefined]]
    /\ boundMainApis = [w \in Windows |-> [a \in ApiNames |-> NoProxy]]
    /\ listeningForIPC = [w \in Windows |-> FALSE]
    /\ binds = <<>>
    /\ proxies = <<>>
    /\ requestChannel = [w \in Windows |-> <<>>]
    /\ requestsRead = [w \in Windows |-> 0]
    /\ responseChannel = [w \in Windows |-> <<>>]
    /\ responsesRead = [w \in Windows |-> 0]
    /\ windowApiMap = [a \in ApiNames |-> Undefined]
    /\ installed = <<>>
    /\ hostListening = FALSE
    /\ ipcListeners = ListenersOf(listeningForIPC, hostListening)
    /\ exposed = <<>>
    /\ apiPool \in ApiPools
    /\ windows = {}
    /\ restorers = {}
    /\ bindNames = {}
    /\ pendingAtExposure = {}
    /\ callbackIx = 0
    /\ callbackListeners = <<>>
    /\ calls = <<>>
    /\ apiCallbacks = <<>>
    /\ callbackChannel = <<>>
    /\ callbacksRead = 0
    /\ localInvocations = <<>>
    /\ methodBehaviour = ReturnsUndefined

NextExpose == \E api \in apiPool : ExposeWindowApi(api)

SpecExpose == InitExpose /\ [][NextExpose]_vars

\* A state in which one window has bound the API A (methods m and n) of
\* the exposing process, with or without a restorer, and has made no call
\* yet; names are the API names the window binds from then on.
BoundStateFor(names) ==
    /\ \E r \in Restorers :
          /\ restorers = {r}
          /\ proxies = << [win |-> "w1", api |-> <<"A">>,
                           methodNames |-> << <<"m">>, <<"n">> >>, restorer |-> r] >>
          /\ binds = << [FreshBind("w1", <<"A">>, r) EXCEPT
                            !.state = "BOUND", !.elapsed = RETRY_MILLIS, !.attempts = 2,
                            !.promise = "resolved", !.value = 1] >>
    /\ bindingTimeoutMillis = [w \in Windows |-> DEFAULT_BINDING_TIMEOUT_MILLIS]
    /\ mainApiMap = [w \in Windows |-> [a \in ApiNames |->
           IF w = "w1" /\ a = <<"A">> THEN Defined(<< <<"m">>, <<"n">> >>) ELSE Undefined]]
    /\ boundMainApis = [w \in Windows |-> [a \in ApiNames |->
           IF w = "w1" /\ a = <<"A">> THEN 1 ELSE NoProxy]]
    /\ listeningForIPC = [w \in Windows |-> w = "w1"]
    /\ requestChannel = [w \in Windows |-> IF w = "w1" THEN << <<"A">> >> ELSE <<>>]
    /\ requestsRead = [w \in Windows |-> IF w = "w1" THEN 1 ELSE 0]
    /\ responseChannel = [w \in Windows |->
           IF w = "w1"
           THEN << [className |-> <<"A">>, methodNames |-> Defined(<< <<"m">>, <<"n">> >>)] >>
           ELSE <<>>]
    /\ responsesRead = [w \in Windows |-> IF w = "w1" THEN 1 ELSE 0]
    /\ windowApiMap = exposeApi([a \in ApiNames |-> Undefined], <<>>, ApiA2).apiMap
    /\ installed = exposeApi([a \in ApiNames |-> Undefined], <<>>, ApiA2).handlerLog
    /\ hostListening = TRUE
    /\ ipcListeners = ListenersOf(listeningForIPC, hostListening)
    /\ exposed = << ApiA2 >>
    /\ apiPool = {ApiA2}
    /\ windows = {"w1"}
    /\ bindNames = names
    /\ pendingAtExposure = {}
    /\ callbackIx = 0
    /\ callbackListeners = <<>>
    /\ calls = <<>>
    /\ apiCallbacks = <<>>
    /\ callbackChannel = <<>>
    /\ callbacksRead = 0
    /\ localInvocations = <<>>

BoundState == BoundStateFor({ <<"A">> })

\* A call of one method with the given arguments through a proxy that has
\* the method.
CallMethodWith(methodName, args) ==
    \E p \in 1..Len(proxies) :
       /\ \E k \in 1..Len(proxies[p].methodNames) : proxies[p].methodNames[k] = methodName
       /\ CallProxy(p, methodName, args)

\* The calls of one method through the proxies.
CallMethod(methodName) ==
    \E args \in CallArgs(methodName) : CallMethodWith(methodName, args)

\* Calls that return or throw: the window calls the exposed method n, which
\* has one of the behaviours.
InitCall ==
    /\ BoundState
    /\ methodBehaviour \in MethodBehaviours

NextCall ==
    \/ CallMethod(<<"n">>)
    \/ \E c \in 1..Len(calls) : HostHandleInvoke(c)
    \/ \E c \in 1..Len(calls) : WindowReceiveResult(c)

SpecCall == InitCall /\ [][NextCall]_vars

\* Calls and binding timeouts together: the window calls the exposed method
\* n, which returns or throws an error that is not wrapped, while it also
\* changes the binding timeout and binds the API B, which is never exposed.
InitPending ==
    /\ BoundStateFor({ <<"A">>, <<"B">> })
    /\ restorers = {HostRestorer}
    /\ methodBehaviour \in { ReturnsUndefined, Faults(NewError("Error", "bug")) }

NextPending ==
    \/ CallMethodWith(<<"n">>, <<>>)
    \/ \E c \in 1..Len(calls) : HostHandleInvoke(c)
    \/ \E c \in 1..Len(calls) : WindowReceiveResult(c)
    \/ \E w \in windows, millis \in TimeoutChoices : SetIpcBindingTimeout(w, millis)
    \/ \E w \in windows, r \in restorers : BindMainApi(w, <<"B">>, r)
    \/ \E i \in 1..Len(binds) : RetryTimer(i)
    \/ \E w \in windows : HostReceiveRequest(w)
    \/ \E w \in windows : WindowReceiveResponse(w)

SpecPending == InitPending /\ [][NextPending]_vars

\* The timeouts a window may have set before it binds: every multiple of
\* half the retry period that the retries modelled can reach.
ConstantTimeouts ==
    { t \in 0..(MaxRetries * RETRY_MILLIS) : t % (RETRY_MILLIS \div 2) = 0 }

\* Binds of names that are never exposed, under a timeout that was set once
\* and does not change; the exposing process may or may not listen.
InitTimeout ==
    /\ \E t \in ConstantTimeouts : bindingTimeoutMillis = [w \in Windows |-> t]
    /\ mainApiMap = [w \in Windows |-> [a \in ApiNames |-> Undefined]]
    /\ boundMainApis = [w \in Windows |-> [a \in ApiNames |-> NoProxy]]
    /\ listeningForIPC = [w \in Windows |-> FALSE]
    /\ binds = <<>>
    /\ proxies = <<>>
    /\ requestChannel = [w \in Windows |-> <<>>]
    /\ requestsRead = [w \in Windows |-> 0]
    /\ responseChannel = [w \in Windows |-> <<>>]
    /\ responsesRead = [w \in Windows |-> 0]
    /\ windowApiMap = [a \in ApiNames |-> Undefined]
    /\ installed = <<>>
    /\ hostListening \in BOOLEAN
    /\ ipcListeners = ListenersOf(listeningForIPC, hostListening)
    /\ exposed = <<>>
    /\ apiPool = {}
    /\ windows = {"w1"}
    /\ restorers = {"none"}
    /\ bindNames = ApiNames
    /\ pendingAtExposure = {}
    /\ callbackIx = 0
    /\ callbackListeners = <<>>
    /\ calls = <<>>
    /\ apiCallbacks = <<>>
    /\ callbackChannel = <<>>
    /\ callbacksRead = 0
    /\ localInvocations = <<>>
    /\ methodBehaviour = ReturnsUndefined

NextTimeout ==
    \/ \E w \in windows, a \in bindNames, r \in restorers : BindMainApi(w, a, r)
    \/ \E i \in 1..Len(binds) : RetryTimer(i)
    \/ \E w \in windows : HostReceiveRequest(w)
    \/ \E w \in windows : WindowReceiveResponse(w)

SpecTimeout == InitTimeout /\ [][NextTimeout]_vars

\* Several binding windows: the API A has been exposed and the exposing
\* process listens; two windows, which have bound nothing yet, bind A, and B,
\* which is never exposed, in any order, each from its own process, with the
\* default binding timeout.
InitWindows ==
    /\ bindingTimeoutMillis = [w \in Windows |-> DEFAULT_BINDING_TIMEOUT_MILLIS]
    /\ mainApiMap = [w \in Windows |-> [a \in ApiNames |-> Undefined]]
    /\ boundMainApis = [w \in Windows |-> [a \in ApiNames |-> NoProxy]]
    /\ listeningForIPC = [w \in Windows |-> FALSE]
    /\ binds = <<>>
    /\ proxies = <<>>
    /\ requestChannel = [w \in Windows |-> <<>>]
    /\ requestsRead = [w \in Windows |-> 0]
    /\ responseChannel = [w \in Windows |-> <<>>]
    /\ responsesRead = [w \in Windows |-> 0]
    /\ windowApiMap = exposeApi([a \in ApiNames |-> Undefined], <<>>, ApiA2).apiMap
    /\ installed = exposeApi([a \in ApiNames |-> Undefined], <<>>, ApiA2).handlerLog
    /\ hostListening = TRUE
    /\ ipcListeners = ListenersOf(listeningForIPC, hostListening)
    /\ exposed = << ApiA2 >>
    /\ apiPool = {ApiA2}
    /\ windows = Windows
    /\ restorers = {"none"}
    /\ bindNames = ApiNames
    /\ pendingAtExposure = {}
    /\ callbackIx = 0
    /\ callbackListeners = <<>>
    /\ calls = <<>>
    /\ apiCallbacks = <<>>
    /\ callbackChannel = <<>>
    /\ callbacksRead = 0
    /\ localInvocations = <<>>
    /\ methodBehaviour = ReturnsUndefined

NextWindows ==
    \/ \E w \in windows, a \in bindNames, r \in restorers : BindMainApi(w, a, r)
    \/ \E i \in 1..Len(binds) : RetryTimer(i)
    \/ \E w \in windows : HostReceiveRequest(w)
    \/ \E w \in windows : WindowReceiveResponse(w)

SpecWindows == InitWindows /\ [][NextWindows]_vars

\* A state in which the APIs A (methods m and n) and B (methods n and m)
\* are exposed and one window has bound both, A before B, with one
\* restorer.
BoundTwoApis ==
    LET methodsA == ExposedMethodNames(ApiA2, getPropertyNames(ApiA2.chain))
        methodsB == ExposedMethodNames(ApiB, getPropertyNames(ApiB.chain))
        exposedA == exposeApi([a \in ApiNames |-> Undefined], <<>>, ApiA2)
        exposedB == exposeApi(exposedA.apiMap, exposedA.handlerLog, ApiB)
    IN
    /\ restorers = {HostRestorer}
    /\ proxies = << [win |-> "w1", api |-> <<"A">>, methodNames |-> methodsA,
                     restorer |-> HostRestorer],
                    [win |-> "w1", api |-> <<"B">>, methodNames |-> methodsB,
                     restorer |-> HostRestorer] >>
    /\ binds = << [FreshBind("w1", <<"A">>, HostRestorer) EXCEPT
                      !.state = "BOUND", !.elapsed = RETRY_MILLIS, !.attempts = 2,
                      !.promise = "resolved", !.value = 1],
                  [FreshBind("w1", <<"B">>, HostRestorer) EXCEPT
                      !.state = "BOUND", !.elapsed = RETRY_MILLIS, !.attempts = 2,
                      !.promise = "resolved", !.value = 2] >>
    /\ bindingTimeoutMillis = [w \in Windows |-> DEFAULT_BINDING_TIMEOUT_MILLIS]
    /\ mainApiMap = [w \in Windows |-> [a \in ApiNames |->
           IF w # "w1" THEN Undefined
           ELSE IF a = <<"A">> THEN Defined(methodsA)
           ELSE IF a = <<"B">> THEN Defined(methodsB) ELSE Undefined]]
    /\ boundMainApis = [w \in Windows |-> [a \in ApiNames |->
           IF w # "w1" THEN NoProxy
           ELSE IF a = <<"A">> THEN 1 ELSE IF a = <<"B">> THEN 2 ELSE NoProxy]]
    /\ listeningForIPC = [w \in Windows |-> w = "w1"]
    /\ requestChannel = [w \in Windows |->
           IF w = "w1" THEN << <<"A">>, <<"B">> >> ELSE <<>>]
    /\ requestsRead = [w \in Windows |-> IF w = "w1" THEN 2 ELSE 0]
    /\ responseChannel = [w \in Windows |->
           IF w = "w1"
           THEN << [className |-> <<"A">>, methodNames |-> Defined(methodsA)],
                   [className |-> <<"B">>, methodNames |-> Defined(methodsB)] >>
           ELSE <<>>]
    /\ responsesRead = [w \in Windows |-> IF w = "w1" THEN 2 ELSE 0]
    /\ windowApiMap = exposedB.apiMap
    /\ installed = exposedB.handlerLog
    /\ hostListening = TRUE
    /\ ipcListeners = ListenersOf(listeningForIPC, hostListening)
    /\ exposed = << ApiA2, ApiB >>
    /\ apiPool = {ApiA2, ApiB}
    /\ windows = {"w1"}
    /\ bindNames = { <<"A">>, <<"B">> }
    /\ pendingAtExposure = {}
    /\ callbackIx = 0
    /\ callbackListeners = <<>>
    /\ calls = <<>>
    /\ apiCallbacks = <<>>
    /\ callbackChannel = <<>>
    /\ callbacksRead = 0
    /\ localInvocations = <<>>

\* Calls through the proxies of two APIs that both have the methods m and
\* n: the window calls either method of either API with a local function,
\* the installed handlers receive the invocations, and the results and
\* callback invocations come back.  Method n returns or throws.
InitDispatch ==
    /\ BoundTwoApis
    /\ methodBehaviour \in { ReturnsUndefined, Relays(NewError("Error", "boom")) }

NextDispatch ==
    \/ CallMethodWith(<<"m">>, << FunctionValue("f1") >>)
    \/ CallMethodWith(<<"n">>, << FunctionValue("f1") >>)
    \/ \E c \in 1..Len(calls) : HostHandleInvoke(c)
    \/ \E c \in 1..Len(calls) : WindowReceiveResult(c)
    \/ WindowReceiveCallback

SpecDispatch == InitDispatch /\ [][NextDispatch]_vars

\* Calls whose arguments vary: the window calls the exposed method n with
\* any list of numbers, nulls, objects and functions, and calls it again
\* with the same list or with one function.
InitArgs ==
    /\ BoundState
    /\ restorers = {HostRestorer}
    /\ methodBehaviour = ReturnsUndefined

NextArgs ==
    \/ \E args \in ArgLists(MaxArgs) :
          /\ IF calls = <<>> THEN TRUE
             ELSE args \in { calls[1].args, << FunctionValue("f1") >> }
          /\ CallMethodWith(<<"n">>, args)
    \/ \E c \in 1..Len(calls) : HostHandleInvoke(c)
    \/ \E c \in 1..Len(calls) : WindowReceiveResult(c)

SpecArgs == InitArgs /\ [][NextArgs]_vars

\* The forwarding function of a window API bound in the main process: it
\* makes the arguments restorable and sends them on the method's wire name.
MainCallWindowApi(methodName, args) == CallMethodWith(methodName, args)

\* Calls of a window API: the API A is exposed with exposeWindowApi, the
\* binding process calls its method n with any list of numbers, nulls,
\* objects and functions, and the handler invokes the method.
InitWindowApi == InitArgs

NextWindowApi ==
    \/ \E args \in ArgLists(MaxArgs) :
          /\ IF calls = <<>> THEN TRUE
             ELSE args \in { calls[1].args, << FunctionValue("f1") >> }
          /\ MainCallWindowApi(<<"n">>, args)
    \/ \E c \in 1..Len(calls) : WindowApiHandle(c)

SpecWindowApi == InitWindowApi /\ [][NextWindowApi]_vars

\* Calls that pass callbacks: the window calls the exposed method m
\* (onFunctionCall) with its local functions, and the exposed API invokes
\* the callbacks it holds.
InitCallback ==
    /\ BoundState
    /\ methodBehaviour = ReturnsUndefined

NextCallback ==
    \/ CallMethod(<<"m">>)
    \/ \E c \in 1..Len(calls) : HostHandleInvoke(c)
    \/ \E eventArgs \in EventArgs : HostOnEvent(eventArgs)
    \/ \E c \in 1..Len(calls) : WindowReceiveResult(c)
    \/ WindowReceiveCallback

SpecCallback == InitCallback /\ [][NextCallback]_vars

\* ------------------------------------------------- thrown values alone

\* An object with its stack property set to the given text.
WithStack(obj, text) ==
    [obj EXCEPT !.props = { p \in @ : p[1] # "stack" } \cup { <<"stack", "string", text>> }]

\* The values passed to makeRethrownReturnValue: non-object values, null,
\* plain objects and class instances (with and without a field named stack,
\* with a field named like the rethrow marker), and Errors of the generic
\* and of a derived class (with different stacks, with an extra field).
ThrownValues ==
    { NumberValue("7"), StringValue("s"), BooleanValue("false"), UndefinedValue, NullValue,
      ObjectValue("Object", FALSE, { <<"x", "number", "1">> }),
      WithStack(ObjectValue("Object", FALSE, { <<"x", "number", "1">> }), "at origin 1"),
      WithStack(ObjectValue("Object", FALSE, { <<"x", "number", "1">> }), "at origin 2"),
      ObjectValue("Object", FALSE, { <<"_affinity_rethrow", "boolean", "false">>,
                                     <<"x", "number", "1">> }),
      ObjectValue("Catter", FALSE, { <<"x", "number", "1">> }),
      NewError("Error", "boom"),
      WithStack(NewError("Error", "boom"), "Error: boom\n    at elsewhere"),
      ObjectAssign(NewError("Error", "bad creds"), { <<"code", "string", "BAD_CREDS">> }),
      NewError("MyError", "denied") }

\* The pair [returnedError, info] as it arrives in the other process.
Transferred(pair) == [value |-> Clone(pair.value), info |-> pair.info]

\* Restorer.makeRethrownReturnValue(thrown) is applied to a value; the record
\* keeps the value, the pair produced and the pair as transferred.
MakeRethrown(thrown) ==
    /\ Len(calls) < MaxCalls
    /\ calls' = Append(calls,
           [thrown |-> thrown,
            response |-> makeRethrownReturnValue(thrown),
            wire |-> Transferred(makeRethrownReturnValue(thrown)),
            marked |-> wasThrownValue(Transferred(makeRethrownReturnValue(thrown)).value),
            state |-> "rethrown", direct |-> FALSE, restorer |-> "none",
            result |-> UndefinedValue])
    /\ UNCHANGED << callbackIx, callbackListeners, apiCallbacks, callbackChannel,
                    callbacksRead, localInvocations, methodBehaviour >>
    /\ UNCHANGED bindVars

\* Restorer.restoreThrownValue(value, info, restorer) is applied to the pair
\* of record c, as produced (direct) or as transferred.
RestoreThrown(c, restorer, direct) ==
    /\ calls[c].state = "rethrown"
    /\ LET pair == IF direct THEN calls[c].response ELSE calls[c].wire
           r == restoreThrownValue(pair.value, pair.info, restorer)
       IN  calls' = [calls EXCEPT ![c].state = IF r.raised THEN "raised" ELSE "restored",
                                  ![c].direct = direct,
                                  ![c].restorer = restorer,
                                  ![c].result = r.value]
    /\ UNCHANGED << callbackIx, callbackListeners, apiCallbacks, callbackChannel,
                    callbacksRead, localInvocations, methodBehaviour >>
    /\ UNCHANGED bindVars

\* The functions of Restorer for thrown values, applied to every value of
\* ThrownValues, with and without a restorer.
InitRethrow == Init

NextRethrow ==
    \/ \E thrown \in ThrownValues : MakeRethrown(thrown)
    \/ \E c \in 1..Len(calls), r \in Restorers, direct \in BOOLEAN : RestoreThrown(c, r, direct)

SpecRethrow == InitRethrow /\ [][NextRethrow]_vars

\* ------------------------------------------------------------------ claims

\* Number of discovery requests window w has sent for an API name.
RequestCount(w, apiClassName) ==
    Cardinality({ k \in 1..Len(requestChannel[w]) : requestChannel[w][k] = apiClassName })

\* Binds of one window for one name that did not start from the cache.
SameTarget(i, j) == binds[i].win = binds[j].win /\ binds[i].api = binds[j].api

\* C1 (as claimed): two bindMainApi calls for the same name that were both
\* issued while the name was not yet bound resolve to the same proxy object.
C1_SameProxyInstance ==
    \A i, j \in 1..Len(binds) :
        ( /\ SameTarget(i, j)
          /\ ~binds[i].fromCache /\ ~binds[j].fromCache
          /\ binds[i].promise = "resolved" /\ binds[j].promise = "resolved" )
        => binds[i].value = binds[j].value

\* C2 (as claimed): while two binds for the same name are waiting at the same
\* time, exactly one discovery request for the name has been sent.
C2_OneRequestOnWire ==
    \A i, j \in 1..Len(binds) :
        (i # j /\ SameTarget(i, j) /\ binds[i].timer /\ binds[j].timer)
        => RequestCount(binds[i].win, binds[i].api) = 1

\* C2 (amended): every bindMainApi call made while the name has no cached
\* proxy sends exactly one discovery request, and nothing else sends one: the
\* requests sent for a name are as many as those calls.
C2_OneRequestPerBind ==
    \A w \in Windows, a \in ApiNames :
        RequestCount(w, a) =
            Cardinality({ i \in 1..Len(binds) :
                            binds[i].win = w /\ binds[i].api = a /\ ~binds[i].fromCache })

C2_Witness ==
    \E i, j \in 1..Len(binds) :
        /\ i # j /\ SameTarget(i, j) /\ binds[i].timer /\ binds[j].timer
        /\ RequestCount(binds[i].win, binds[i].api) = 2

\* C3: a bindMainApi call made when a proxy for the name is cached resolves
\* with exactly that proxy, sends no discovery request, starts no retry loop
\* and creates no proxy.
C3_CachedBind ==
    [][ Len(binds') = Len(binds) + 1 =>
          LET nb == binds'[Len(binds')] IN
          boundMainApis[nb.win][nb.api] # 0 =>
              /\ nb.promise = "resolved"
              /\ nb.value = boundMainApis[nb.win][nb.api]
              /\ ~nb.timer
              /\ requestChannel' = requestChannel
              /\ proxies' = proxies
              /\ boundMainApis' = boundMainApis ]_vars

C3_Witness ==
    \E i \in 1..Len(binds) :
        /\ binds[i].fromCache
        /\ binds[i].promise = "resolved"
        /\ binds[i].value = boundMainApis[binds[i].win][binds[i].api]

\* C4 (as claimed): a bind that reaches TIMED_OUT has failed, that is its
\* promise is rejected (not pending), with an error that names the API.
C4_TimeoutRejectsBind ==
    \A i \in 1..Len(binds) :
        binds[i].state = "TIMED_OUT" =>
            binds[i].promise = "rejected" /\ binds[i].error.api = binds[i].api

C6_TimeoutReadAtEachCheck ==
    [][ \A i \in 1..Len(binds) :
          (binds[i].timer /\ binds'[i] # binds[i]) =>
             LET w == binds[i].win
                 elapsedMillis == binds[i].elapsed + RETRY_MILLIS
             IN  /\ binds'[i].elapsed = elapsedMillis
                 /\ mainApiMap[w][binds[i].api].def => binds'[i].state = "BOUND"
                 /\ ~mainApiMap[w][binds[i].api].def =>
                       /\ (binds'[i].state = "TIMED_OUT") <=> (elapsedMillis >= bindingTimeoutMillis[w])
                       /\ binds'[i].timer <=> (elapsedMillis < bindingTimeoutMillis[w]) ]_vars

\* A bind that is waiting although the timeout is now at most its elapsed
\* time (the timeout was lowered after its last check), and another bind
\* that has failed at a check made by its timer.
C6_Witness ==
    /\ \E i \in 1..Len(binds) :
          binds[i].timer /\ binds[i].elapsed >= bindingTimeoutMillis[binds[i].win]
    /\ \E i \in 1..Len(binds) :
          /\ binds[i].state = "TIMED_OUT" /\ binds[i].thrown = "timer"
          /\ binds[i].elapsed >= RETRY_MILLIS

\* The instance whose exposure registered class name c: the first one of
\* that class passed to exposeWindowApi.
C8_Registrant(c) ==
    exposed[CHOOSE k \in 1..Len(exposed) :
               /\ exposed[k].className = c
               /\ \A j \in 1..(k - 1) : exposed[j].className # c]

\* The names of the properties found on an instance and on its prototype
\* chain below the universal base object (the last object of the chain).
C8_NamesBelowBase(api) ==
    UNION { { api.chain[l][k].name : k \in 1..Len(api.chain[l]) } : l \in 1..(Len(api.chain) - 1) }

\* Whether api[n] is callable: the nearest object of the chain that has a
\* property n holds a function.
C8_Callable(api, n) ==
    LET having == { l \in 1..Len(api.chain) : \E k \in 1..Len(api.chain[l]) : api.chain[l][k].name = n }
        nearest == CHOOSE l \in having : \A l2 \in having : l <= l2
    IN  \E k \in 1..Len(api.chain[nearest]) :
            api.chain[nearest][k].name = n /\ api.chain[nearest][k].fn

C8_PublicMethods(api) ==
    { n \in C8_NamesBelowBase(api) :
        /\ n # <<"c","o","n","s","t","r","u","c","t","o","r">>
        /\ (n = <<>> \/ (n[1] # "_" /\ n[1] # "#"))
        /\ C8_Callable(api, n) }

SeqRange(q) == { q[k] : k \in 1..Len(q) }

\* C7: exposeApi is idempotent per API name: a call for an instance whose
\* class name is already in the registry installs no handler and leaves the
\* registry unchanged.
C7_ExposeIdempotent ==
    [][ (Len(exposed') = Len(exposed) + 1
         /\ windowApiMap[exposed'[Len(exposed')].className].def)
        => (installed' = installed /\ windowApiMap' = windowApiMap) ]_vars

\* Two exposeWindowApi calls for different instances of one class name,
\* after which the registry holds the methods of the first one only.
C7_Witness ==
    /\ Len(exposed) >= 2
    /\ exposed[1].className = exposed[2].className
    /\ exposed[1] # exposed[2]
    /\ SeqRange(windowApiMap[exposed[1].className].names) = C8_PublicMethods(exposed[1])
    /\ SeqRange(windowApiMap[exposed[1].className].names) # C8_PublicMethods(exposed[2])

\* C8: after exposeApi the registry entry of an API holds exactly the names
\* of the callable properties of the instance and of its prototype chain
\* below the universal base object that are not "constructor" and do not
\* begin with "_" or "#", and handlers are installed under
\* "<ApiName>:<methodName>" for exactly these names.
C8_PublicMethodSet ==
    /\ \A c \in ApiNames :
          windowApiMap[c].def <=> (\E k \in 1..Len(exposed) : exposed[k].className = c)
    /\ \A c \in ApiNames :
          windowApiMap[c].def =>
              SeqRange(windowApiMap[c].names) = C8_PublicMethods(C8_Registrant(c))
    /\ SeqRange(installed) =
          UNION { { c \o <<":">> \o n : n \in C8_PublicMethods(C8_Registrant(c)) } :
                  c \in { c2 \in ApiNames : windowApiMap[c2].def } }

\* An exposed instance with a public method of its class, a public method
\* inherited from the ancestor class, and private and non-callable
\* properties that are left out.
C8_Witness ==
    \E c \in ApiNames :
        /\ windowApiMap[c].def
        /\ Cardinality(C8_PublicMethods(C8_Registrant(c))) = 2
        /\ Cardinality(C8_NamesBelowBase(C8_Registrant(c))) >= 4
        /\ \E n \in C8_NamesBelowBase(C8_Registrant(c)) : n # <<>> /\ n[1] = "#"
        /\ \A n \in C8_PublicMethods(C8_Registrant(c)) : Includes(installed, c \o <<":">> \o n)

\* The local invocations made for callback invocation message number k.
C9_InvocationsFor(k) ==
    { j \in 1..Len(localInvocations) : localInvocations[j].message = k }

\* C9: when a function is passed as an argument through a bound proxy method
\* and the exposed method invokes it with an argument list, the original
\* local function (the argument of the call the stand-in was made for) is
\* invoked with exactly that argument list, once for every invocation
\* received and never otherwise, and the call itself never throws or
\* faults: it returns undefined.
C9_CallbackRelay ==
    /\ \A k \in 1..callbacksRead :
          /\ Cardinality(C9_InvocationsFor(k)) = 1
          /\ \A j \in C9_InvocationsFor(k) :
                /\ localInvocations[j].func =
                       calls[callbackChannel[k].call].args[callbackChannel[k].argIndex + 1]
                /\ localInvocations[j].args = callbackChannel[k].args
    /\ \A j \in 1..Len(localInvocations) : localInvocations[j].message \in 1..callbacksRead
    /\ \A c \in 1..Len(calls) :
          calls[c].method = <<"m">> =>
             /\ calls[c].state \in {"invoked", "responded", "returned"}
             /\ calls[c].state = "returned" => calls[c].result = UndefinedValue

\* C9 witness: two completed calls passed the same local function, the
\* exposed API has invoked the stand-ins of both, with ("ev", 7) among the
\* argument lists, and every invocation has been received.
C9_Witness ==
    /\ \E c, d \in 1..Len(calls) :
          /\ c # d
          /\ calls[c].method = <<"m">> /\ calls[d].method = <<"m">>
          /\ calls[c].args = calls[d].args
          /\ calls[c].state = "returned" /\ calls[d].state = "returned"
          /\ \E j \in 1..Len(callbackChannel) : callbackChannel[j].call = c
          /\ \E j \in 1..Len(callbackChannel) : callbackChannel[j].call = d
    /\ \E j \in 1..Len(localInvocations) :
          localInvocations[j].args = << StringValue("ev"), NumberValue("7") >>
    /\ callbacksRead = Len(callbackChannel)
    /\ Len(localInvocations) >= 3

\* Whether a response value carries the rethrow marker.
C10_CarriesMarker(value) == <<"_affinity_rethrow", "boolean", "true">> \in value.props

\* Whether the value a call hands to its caller is the value the exposed
\* method handed over: the same primitive, or an object of the same kind
\* with the same fields (the stack aside).
C10_SameValue(received, original) ==
    IF original.type # "object" THEN received = original
    ELSE /\ received.type = "object"
         /\ received.isError = original.isError
         /\ { p \in received.props : p[1] # "stack" } = { p \in original.props : p[1] # "stack" }

\* C10 (first part): a completed call through a bound proxy method has
\* thrown if and only if the response value carries the rethrow marker.
C10_ThrowIffMarker ==
    \A c \in 1..Len(calls) :
       calls[c].state \in {"returned", "threw"} =>
          ((calls[c].state = "threw") <=> C10_CarriesMarker(calls[c].response.value))

\* C10: a call through a bound proxy method throws to its caller if and only
\* if the response value carries the rethrow marker; what it then raises is
\* the restored thrown value, that is the value the exposed method relayed
\* (marker removed); otherwise it returns the restored value, that is the
\* value the exposed method returned.
C10_ThrowsRestoredValue ==
    \A c \in 1..Len(calls) :
       calls[c].state \in {"returned", "threw"} =>
          /\ (calls[c].state = "threw") <=> C10_CarriesMarker(calls[c].response.value)
          /\ calls[c].state = "threw" =>
                C10_SameValue(calls[c].result,
                              DeleteProp(calls[c].outcome.value, "_affinity_rethrow"))
          /\ calls[c].state = "returned" =>
                C10_SameValue(calls[c].result, calls[c].outcome.value)

\* C11: when the exposed method throws a relayable Error with message m, the
\* caller's call throws an Error whose message is m; the value sent to the
\* caller has no stack field, and the stack of the Error the caller gets is
\* not the stack the Error had in the exposing process.
C11_ErrorRelay ==
    \A c \in 1..Len(calls) :
       (/\ calls[c].outcome.kind = "relay"
        /\ calls[c].outcome.value.isError
        /\ calls[c].state \in {"responded", "returned", "threw"}) =>
          /\ ~\E p \in calls[c].response.value.props : p[1] = "stack"
          /\ calls[c].state # "returned"
          /\ calls[c].state = "threw" =>
                /\ calls[c].result.isError
                /\ GetProp(calls[c].result, "message") = GetProp(calls[c].outcome.value, "message")
                /\ GetProp(calls[c].result, "stack") # GetProp(calls[c].outcome.value, "stack")

\* C11 witness: a call has thrown an Error with the message "bad creds" that
\* the exposed method relayed.
C11_Witness ==
    \E c \in 1..Len(calls) :
       /\ calls[c].outcome.kind = "relay"
       /\ calls[c].outcome.value.isError
       /\ calls[c].state = "threw"
       /\ GetProp(calls[c].result, "message") = StringValue("bad creds")
       /\ GetProp(calls[c].outcome.value, "stack").type = "string"

\* C12: when the exposed method relays a non-object value v (a number, a
\* string or a boolean), the caller's call throws exactly v: the same type
\* and the same payload, not the wrapper, not a string or an Error made
\* from it.
C12_NonObjectThrow ==
    \A c \in 1..Len(calls) :
       (/\ calls[c].outcome.kind = "relay"
        /\ calls[c].outcome.value.type \in {"number", "string", "boolean"}
        /\ calls[c].state \in {"returned", "threw"}) =>
          /\ calls[c].state = "threw"
          /\ calls[c].result = calls[c].outcome.value

\* C12 witness: a call has thrown a relayed value that counts as false (0,
\* "" or false), whose wire value was the boxed form.
C12_Witness ==
    \E c \in 1..Len(calls) :
       /\ calls[c].outcome.kind = "relay"
       /\ calls[c].outcome.value.type \in {"number", "string", "boolean"}
       /\ ~Truthy(calls[c].outcome.value)
       /\ calls[c].state = "threw"
       /\ calls[c].response.info.className = "__ThrownNonObject"

\* C13: an error thrown inside an exposed method that was not wrapped as
\* relayable is never delivered to the caller: the call gets no response,
\* it neither throws nor returns, and the error stays a fault of the
\* exposing process.
C13_UnrelayedFault ==
    \A c \in 1..Len(calls) :
       (calls[c].state # "invoked" /\ calls[c].outcome.kind = "fault") =>
          /\ calls[c].state = "faulted"
          /\ calls[c].response = NoResponse
          /\ calls[c].result = UndefinedValue

\* C13 witness: the exposed method has thrown an error that was not wrapped
\* in two calls, and both are left without a response.
C13_Witness ==
    /\ methodBehaviour.kind = "fault"
    /\ Len(calls) >= 2
    /\ \A c \in 1..Len(calls) : calls[c].state = "faulted"

\* Whether a restored value is an instance of the class with the fields of
\* the original.
C14_Instance(restored, cls, original) ==
    /\ restored.type = "object"
    /\ restored.className = cls
    /\ restored.props = { p \in original.props : p[1] # "_affinity_rethrow" }

\* C14: restoring a transferred value whose class name is a key of the
\* restorer's class map (Catter) yields an instance of that class with the
\* same field values: for a returned or relayed value at a caller that
\* bound with the restorer, and for an argument at the exposing side.
C14_KnownClassRestored ==
    \A c \in 1..Len(calls) :
       /\ (/\ calls[c].state \in {"returned", "threw"}
           /\ proxies[calls[c].proxy].restorer = "restorer"
           /\ calls[c].outcome.value.className = "Catter") =>
             C14_Instance(calls[c].result, "Catter", calls[c].outcome.value)
       /\ (calls[c].state # "invoked" /\ HostRestorer = "restorer") =>
             \A i \in 1..Len(calls[c].args) :
                calls[c].args[i].className = "Catter" =>
                   C14_Instance(calls[c].received[i], "Catter", calls[c].args[i])

\* C14 witness: a caller with the restorer has received a returned Catter,
\* and the exposed method was passed a Catter argument, both transferred as
\* plain objects.
C14_Witness ==
    \E c \in 1..Len(calls) :
       /\ calls[c].state = "returned"
       /\ proxies[calls[c].proxy].restorer = "restorer"
       /\ calls[c].outcome.value.className = "Catter"
       /\ calls[c].response.value.className = "Object"
       /\ calls[c].result.className = "Catter"
       /\ \E i \in 1..Len(calls[c].args) : calls[c].received[i].className = "Catter"

\* Whether a restored value is the plain object with the fields of the
\* original.
C15_PlainObject(restored, original) ==
    /\ restored.type = "object"
    /\ restored.className = "Object"
    /\ ~restored.isError
    /\ restored.props = original.props

\* C15: restoring a transferred value whose class name is not known to the
\* restorer (Joiner, where the class map has Catter only) yields the plain
\* object that was received, with the same fields, and raises no error: a
\* returned value at a caller that bound with the restorer (the call
\* returns), an argument at the exposing side (the handler answers).
C15_UnknownClassPlain ==
    \A c \in 1..Len(calls) :
       /\ (/\ calls[c].state \in {"returned", "threw"}
           /\ proxies[calls[c].proxy].restorer = "restorer"
           /\ calls[c].outcome.kind = "return"
           /\ calls[c].outcome.value.className = "Joiner") =>
             /\ calls[c].state = "returned"
             /\ calls[c].result = calls[c].response.value
             /\ C15_PlainObject(calls[c].result, calls[c].outcome.value)
       /\ (calls[c].state # "invoked" /\ HostRestorer = "restorer") =>
             \A i \in 1..Len(calls[c].args) :
                calls[c].args[i].className = "Joiner" =>
                   C15_PlainObject(calls[c].received[i], calls[c].args[i])

\* C15 witness: a caller with the restorer has received a returned Joiner
\* as a plain object, after passing a Joiner argument.
C15_Witness ==
    \E c \in 1..Len(calls) :
       /\ calls[c].state = "returned"
       /\ proxies[calls[c].proxy].restorer = "restorer"
       /\ calls[c].outcome.value.className = "Joiner"
       /\ calls[c].response.info.className = "Joiner"
       /\ \E i \in 1..Len(calls[c].args) : calls[c].args[i].className = "Joiner"

\* C16: for every plain-data object v that is returned to a caller that
\* bound without a restorer, restoreValue(v, makeRestorationInfo(v)) is v:
\* a plain object with every field equal to the original.
C16_PlainRoundTrip ==
    \A c \in 1..Len(calls) :
       (/\ calls[c].state = "returned"
        /\ proxies[calls[c].proxy].restorer = "none"
        /\ calls[c].outcome.value.type = "object"
        /\ calls[c].outcome.value.className = "Object") =>
          calls[c].result = calls[c].outcome.value

\* C16 witness: a caller without a restorer has received a returned plain
\* object that has a field.
C16_Witness ==
    \E c \in 1..Len(calls) :
       /\ calls[c].state = "returned"
       /\ proxies[calls[c].proxy].restorer = "none"
       /\ calls[c].outcome.value.className = "Object"
       /\ calls[c].response.info.def
       /\ calls[c].result.props # {}

\* C17: a call through a bound proxy whose response has not arrived does
\* not complete: a call that is not answered yet can only be answered or
\* left without an answer, and a call the exposing side left without an
\* answer stays as it is in every later state, whatever the binding timeout
\* is set to and whatever binds time out meanwhile.
C17_PendingForever ==
    [][\A c \in 1..Len(calls) :
          /\ calls[c].state = "invoked" =>
                calls'[c].state \in {"invoked", "responded", "faulted"}
          /\ calls[c].state = "faulted" => calls'[c] = calls[c]]_vars

\* C17 witness: a call is left without a response while the binding timeout
\* has been set to 0 and a bind has timed out.
C17_Witness ==
    /\ \E c \in 1..Len(calls) : calls[c].state = "faulted"
    /\ \E w \in windows : bindingTimeoutMillis[w] = 0
    /\ \E i \in 1..Len(binds) : binds[i].state = "TIMED_OUT"

\* C18 (as claimed): once a proxy is cached for an API name in a process the
\* cache entry is never replaced or removed, and at most one proxy is ever
\* created per API name per process.
C18_CacheEntryStable ==
    [][ /\ \A w \in Windows, a \in ApiNames :
              boundMainApis[w][a] # NoProxy =>
                  boundMainApis'[w][a] = boundMainApis[w][a]
        /\ \A p, q \in 1..Len(proxies') :
              (proxies'[p].win = proxies'[q].win /\ proxies'[p].api = proxies'[q].api)
                  => p = q ]_vars

\* C19: methods with the same name on two exposed APIs are dispatched
\* independently: a call through the proxy of API X for method m is sent on
\* the wire name "X:m" and on no other, the only handler that receives it is
\* the one installed for X's method m, and the callback it passes is kept by
\* X's instance only.
C19_IndependentDispatch ==
    /\ \A c \in 1..Len(calls) :
          LET api == proxies[calls[c].proxy].api IN
          /\ calls[c].ipcName = api \o <<":">> \o calls[c].method
          /\ calls[c].state # "invoked" =>
                /\ calls[c].handledBy.api = api
                /\ calls[c].handledBy.method = calls[c].method
    /\ \A k \in 1..Len(apiCallbacks) :
          apiCallbacks[k].api = proxies[calls[apiCallbacks[k].call].proxy].api

\* C19 witness: method m has been called through the proxy of A and through
\* the proxy of B, and each call has been handled.
C19_Witness ==
    \E c, d \in 1..Len(calls) :
        /\ calls[c].method = <<"m">> /\ calls[d].method = <<"m">>
        /\ proxies[calls[c].proxy].api = <<"A">>
        /\ proxies[calls[d].proxy].api = <<"B">>
        /\ calls[c].state = "returned" /\ calls[d].state = "returned"
        /\ calls[c].handledBy.api = <<"A">> /\ calls[d].handledBy.api = <<"B">>

\* The binding state of one client process: its registry cache and its proxy
\* cache.
C20_BindingState(w) == << mainApiMap[w], boundMainApis[w] >>

\* C20: after an API has been exposed the binds of several client processes
\* all succeed, in any order, and independently.  No bind fails; an attempt
\* of a bind succeeds as soon as its own process has the registry entry,
\* whatever the other process has or has not done; no step changes the
\* binding state of two processes, and a step of one process's bind leaves
\* the other's state as it was; no proxy is cached by two processes.
C20_IndependentClients ==
    [][ /\ \A i \in 1..Len(binds') :
              binds'[i].state # "TIMED_OUT" /\ binds'[i].promise # "rejected"
        /\ \A i \in 1..Len(binds) :
              ( /\ binds'[i] # binds[i]
                /\ mainApiMap[binds[i].win][binds[i].api].def )
              => ( /\ binds'[i].state = "BOUND"
                   /\ binds'[i].promise = "resolved"
                   /\ binds'[i].value = boundMainApis'[binds[i].win][binds[i].api] )
        /\ \A w, x \in Windows :
              (w # x /\ C20_BindingState(w)' # C20_BindingState(w))
              => C20_BindingState(x)' = C20_BindingState(x)
        /\ \A w, x \in Windows, a \in ApiNames :
              (w # x /\ boundMainApis'[w][a] # NoProxy)
              => boundMainApis'[w][a] # boundMainApis'[x][a] ]_vars

\* C20 witness: both windows have bound the API, each with its own proxy.
C20_Witness ==
    /\ \A w \in Windows : boundMainApis[w][<<"A">>] # NoProxy
    /\ \E i, j \in 1..Len(binds) :
          /\ binds[i].win # binds[j].win
          /\ binds[i].state = "BOUND" /\ binds[j].state = "BOUND"
          /\ binds[i].value # binds[j].value

\* C21: a pending bind becomes BOUND at the first retry attempt at which the
\* registry cache holds a method list for its name, and it does not time out
\* at a check where the entry is present: every attempt of a waiting bind,
\* also the one made when the elapsed time has reached the timeout, binds if
\* the entry is there and does not bind if it is not, and a bind only goes
\* to TIMED_OUT in a step whose attempt found no entry.
C21_AttemptBeforeTimeout ==
    [][\A i \in 1..Len(binds) :
          (binds[i].timer /\ binds'[i] # binds[i]) =>
              IF mainApiMap[binds[i].win][binds[i].api].def
              THEN /\ binds'[i].state = "BOUND"
                   /\ binds'[i].promise = "resolved"
                   /\ binds'[i].elapsed = binds[i].elapsed + RETRY_MILLIS
              ELSE binds'[i].state \in {"DISCOVERING", "TIMED_OUT"}]_vars

\* C21 witness: a bind became BOUND at the retry at which its elapsed time
\* had reached the binding timeout.
C21_Witness ==
    \E i \in 1..Len(binds) :
        /\ ~binds[i].fromCache
        /\ binds[i].state = "BOUND"
        /\ binds[i].elapsed > 0
        /\ binds[i].elapsed >= bindingTimeoutMillis[binds[i].win]

\* ceil(t / d) for a timeout t >= 0 and a period d > 0.
C22_Ceil(t, d) == (t + d - 1) \div d

\* C22: with a constant timeout T and the retry interval of 50 ms, a bind of
\* a name that is never exposed fails at the first attempt whose nominal
\* elapsed time (50 ms times the retry intervals completed) is at least T,
\* after exactly ceil(T/50)+1 attempts, and not before; for T = 50 ms it
\* fails at nominal elapsed time 50 ms, which lies between 50 and 150 ms.
C22_FailsAtFirstCheckPastTimeout ==
    \A i \in 1..Len(binds) :
        LET T == bindingTimeoutMillis[binds[i].win]
            b == binds[i]
        IN  /\ b.state # "BOUND"
            /\ b.elapsed = 50 * (b.attempts - 1)
            /\ b.state = "TIMED_OUT" =>
                  /\ b.elapsed >= T
                  /\ b.elapsed = 0 \/ b.elapsed - 50 < T
                  /\ b.attempts = C22_Ceil(T, 50) + 1
                  /\ b.error.api = b.api
                  /\ T = 50 => (b.elapsed = 50 /\ b.elapsed >= 50 /\ b.elapsed <= 150)
            /\ b.state = "DISCOVERING" => b.elapsed < T

\* C22 witness: a bind failed after more than one attempt under a timeout
\* that is not a multiple of the retry period.
C22_Witness ==
    \E i \in 1..Len(binds) :
        /\ binds[i].state = "TIMED_OUT"
        /\ binds[i].attempts >= 2
        /\ bindingTimeoutMillis[binds[i].win] % 50 # 0

\* C23: a bindMainApi call for a name that is not bound yet sends exactly
\* one discovery request, for that name and in the step of the call itself;
\* no other step sends a request, so the retries that follow send none.
C23_OneRequestAtStart ==
    [][ IF Len(binds') = Len(binds) + 1 /\ ~binds'[Len(binds')].fromCache
        THEN LET nb == binds'[Len(binds')] IN
             /\ boundMainApis[nb.win][nb.api] = NoProxy
             /\ requestChannel'[nb.win] = Append(requestChannel[nb.win], nb.api)
             /\ \A w \in Windows \ {nb.win} : requestChannel'[w] = requestChannel[w]
        ELSE requestChannel' = requestChannel ]_vars

\* C23 witness: a bind has made a retry attempt and exactly one request for
\* its name has been sent.
C23_Witness ==
    \E i \in 1..Len(binds) :
        /\ ~binds[i].fromCache
        /\ binds[i].attempts >= 2
        /\ Len(requestChannel[binds[i].win]) = 1
        /\ requestChannel[binds[i].win][1] = binds[i].api

\* Whether a listener of the window is subscribed to a channel.
C24_HasListener(channel) ==
    \E l \in 1..Len(callbackListeners) : callbackListeners[l].channel = channel

\* C24: for every call through a bound proxy that has function-valued
\* arguments, the listener of each callback channel allocated for the call
\* is subscribed by the time the call's invoke has been sent, so that every
\* callback invocation sent for the call finds a listener on its channel.
C24_SubscribedBeforeInvoke ==
    /\ \A c \in 1..Len(calls) :
          LET infos == calls[c].wire[Len(calls[c].wire)].infos IN
          \A k \in 1..Len(infos) :
              infos[k].isCallback =>
                  /\ calls[c].wire[infos[k].argIndex + 1].type = "string"
                  /\ C24_HasListener(calls[c].wire[infos[k].argIndex + 1].v)
    /\ \A j \in 1..Len(callbackChannel) : C24_HasListener(callbackChannel[j].channel)

\* C24 witness: a call with a function argument has been sent and not yet
\* handled, and the invocation messages of another call are in flight.
C24_Witness ==
    /\ \E c \in 1..Len(calls) :
          /\ calls[c].state = "invoked"
          /\ calls[c].args[1].type = "function"
    /\ Len(callbackChannel) > callbacksRead

\* The positions of the function-valued arguments of call c.
C25_FunctionArgs(c) ==
    { i \in 1..Len(calls[c].args) : calls[c].args[i].type = "function" }

\* The channel names allocated so far: for every call and every function
\* argument of it, the name that replaced the argument.
C25_Allocations ==
    { p \in (1..Len(calls)) \X (1..MaxArgs) : p[2] \in C25_FunctionArgs(p[1]) }

\* The number n of a name "_affinity_event_callback_<n>", 0 for anything else.
C25_NumberOf(name) ==
    IF \E n \in 1..callbackIx : name = "_affinity_event_callback_" \o ToString(n)
    THEN CHOOSE n \in 1..callbackIx : name = "_affinity_event_callback_" \o ToString(n)
    ELSE 0

\* C25: callback channel names are unique within a process: over any
\* sequence of proxy calls every function-valued argument, a function that
\* was passed before and each of several functions of one call included,
\* is replaced by a name "_affinity_event_callback_<n>", n grows strictly
\* from each allocation to the next, and no name is allocated twice.
C25_FreshChannelNames ==
    /\ \A p \in C25_Allocations :
          /\ calls[p[1]].wire[p[2]].type = "string"
          /\ C25_NumberOf(calls[p[1]].wire[p[2]].v) >= 1
    /\ \A p, q \in C25_Allocations :
          (p[1] < q[1] \/ (p[1] = q[1] /\ p[2] < q[2]))
          => C25_NumberOf(calls[p[1]].wire[p[2]].v) < C25_NumberOf(calls[q[1]].wire[q[2]].v)
    /\ Cardinality({ calls[p[1]].wire[p[2]].v : p \in C25_Allocations })
          = Cardinality(C25_Allocations)
    /\ callbackIx = Cardinality(C25_Allocations)

\* C25 witness: one call passed the same function twice, a later call passed
\* that function again, and three names have been allocated.
C25_Witness ==
    /\ \E c, d \in 1..Len(calls) :
          /\ c < d
          /\ Len(calls[c].args) >= 2
          /\ calls[c].args[1].type = "function"
          /\ calls[c].args[2] = calls[c].args[1]
          /\ calls[d].args[1] = calls[c].args[1]
    /\ callbackIx >= 3

\* C26: callback channels are never released: the listeners subscribed in a
\* process only grow.  Every step, among them a call returning, a call
\* throwing, a callback invocation arriving and a later call passing the
\* same function, leaves every listener subscribed so far in place.
C26_ListenersOnlyGrow ==
    [][ /\ Len(callbackListeners') >= Len(callbackListeners)
        /\ \A k \in 1..Len(callbackListeners) :
              callbackListeners'[k] = callbackListeners[k] ]_vars

\* C26 witness: a call that passed a function has thrown, a later call passed
\* the same function, and the listeners of both are subscribed.
C26_Witness ==
    \E c, d \in 1..Len(calls) :
        /\ c < d
        /\ calls[c].state = "threw"
        /\ calls[d].args = calls[c].args
        /\ calls[d].state \in {"returned", "threw"}
        /\ \A e \in {c, d} : \E l \in 1..Len(callbackListeners) :
              /\ callbackListeners[l].channel = calls[e].wire[1].v
              /\ callbackListeners[l].func = calls[e].args[1]

\* The argument indexes (from 0) of the arguments of call c that are objects
\* or functions.
C27_RestorableIndexes(c) ==
    { i - 1 : i \in { j \in 1..Len(calls[c].args) :
                        calls[c].args[j].type \in {"object", "function"} } }

\* C27: makeArgsRestorable on an argument list of length n leaves a list of
\* length n+1 whose last element is the list of restoration information: one
\* entry for each argument that is an object or a function and none for a
\* primitive or null, in strictly increasing argIndex order.  Every function
\* argument is replaced in place by its channel name and recorded under that
\* name in the returned map; every other argument is unchanged in its place.
C27_ArgsMadeRestorable ==
    \A c \in 1..Len(calls) :
        LET args == calls[c].args
            wire == calls[c].wire
            last == wire[Len(wire)]
        IN  /\ Len(wire) = Len(args) + 1
            /\ last.type = "infos"
            /\ { last.infos[k].argIndex : k \in 1..Len(last.infos) } = C27_RestorableIndexes(c)
            /\ \A k \in 1..Len(last.infos) :
                  /\ k > 1 => last.infos[k - 1].argIndex < last.infos[k].argIndex
                  /\ last.infos[k].isCallback
                        = (args[last.infos[k].argIndex + 1].type = "function")
            /\ \A i \in 1..Len(args) :
                  IF args[i].type = "function"
                  THEN /\ wire[i].type = "string"
                       /\ \E e \in 1..Len(calls[c].callbacks) :
                             /\ calls[c].callbacks[e].name = wire[i].v
                             /\ calls[c].callbacks[e].value = args[i]
                  ELSE wire[i] = args[i]
            /\ Len(calls[c].callbacks) = Cardinality(C25_FunctionArgs(c))

\* C27 witness: a call passed an object or a function, then a number or
\* null, then a function.
C27_Witness ==
    \E c \in 1..Len(calls) :
        /\ Len(calls[c].args) = 3
        /\ calls[c].args[1].type \in {"object", "function"}
        /\ calls[c].args[2].type \in {"number", "null"}
        /\ calls[c].args[3].type = "function"
        /\ Len(calls[c].wire[4].infos) = 2

\* C28: restoreArgs applied to what makeArgsRestorable left removes exactly
\* the trailing info list: the list has its original length again, with
\* every argument that is not a function at its original index, and the map
\* returned sends each callback channel name to the index of the argument
\* that held the function, with entries for callback arguments only.
C28_ArgsRestored ==
    \A c \in 1..Len(calls) :
        calls[c].state # "invoked" =>
            LET args == calls[c].args
                restored == calls[c].restored
            IN  /\ Len(restored.args) = Len(args)
                /\ \A i \in 1..Len(args) :
                      IF args[i].type = "function"
                      THEN restored.args[i] = calls[c].wire[i]
                      ELSE restored.args[i] = args[i]
                /\ { << restored.callbacks[e].name, restored.callbacks[e].value >> :
                        e \in 1..Len(restored.callbacks) }
                      = { << calls[c].wire[i].v, i - 1 >> : i \in C25_FunctionArgs(c) }
                /\ Len(restored.callbacks) = Cardinality(C25_FunctionArgs(c))

\* C28 witness: the arguments of a call that passed a number or null, then a
\* function, then an object have been restored.
C28_Witness ==
    \E c \in 1..Len(calls) :
        /\ calls[c].state # "invoked"
        /\ Len(calls[c].args) = 3
        /\ calls[c].args[1].type \in {"number", "null"}
        /\ calls[c].args[2].type = "function"
        /\ calls[c].args[3].type = "object"
        /\ Len(calls[c].restored.callbacks) = 1
        /\ calls[c].restored.callbacks[1].value = 1

\* C29 (as claimed): the handler installed when an API is exposed passes to
\* the method, for every callback-flagged argument, a callable stand-in that
\* sends on the received channel name; the method never receives the bare
\* channel name in place of the function.
C29_StandInsPassed ==
    \A c \in 1..Len(calls) :
        calls[c].state # "invoked" =>
            \A i \in C25_FunctionArgs(c) :
                /\ calls[c].received[i].type = "function"
                /\ calls[c].received[i].v = calls[c].wire[i].v

\* C29 (amended): the handler exposeWindowApi installs passes the argument
\* list to the method as restoreArgs left it, without using the map of
\* callbacks restoreArgs returns: every callback-flagged argument reaches the
\* method as the bare channel name, a string, and every other argument as
\* restored.
C29_WindowApiGetsChannelName ==
    \A c \in 1..Len(calls) :
        calls[c].state = "delivered" =>
            /\ Len(calls[c].received) = Len(calls[c].args)
            /\ \A i \in 1..Len(calls[c].args) :
                  IF calls[c].args[i].type = "function"
                  THEN calls[c].received[i] = calls[c].wire[i]
                  ELSE calls[c].received[i] = calls[c].args[i]
            /\ \A i \in C25_FunctionArgs(c) :
                  /\ calls[c].received[i].type = "string"
                  /\ \E e \in 1..Len(calls[c].restored.callbacks) :
                        calls[c].restored.callbacks[e].name = calls[c].received[i].v

\* C29 witness: the method of a window API has been invoked for a call that
\* passed a function and an object.
C29_Witness ==
    \E c \in 1..Len(calls) :
        /\ calls[c].state = "delivered"
        /\ \E i, j \in 1..Len(calls[c].args) :
              /\ calls[c].args[i].type = "function"
              /\ calls[c].args[j].type = "object"

\* C30: the registry cache of a client is append-only: once it holds a
\* method list for an API name, no step, in particular no discovery response
\* received later for that name or for another one, with or without a method
\* list, removes or changes the entry, so that the attempt of every waiting
\* bind for the name made afterwards finds it and binds.
C30_RegistryAppendOnly ==
    [][ /\ \A w \in Windows, a \in ApiNames :
              mainApiMap[w][a].def => mainApiMap'[w][a] = mainApiMap[w][a]
        /\ \A i \in 1..Len(binds) :
              ( /\ mainApiMap[binds[i].win][binds[i].api].def
                /\ binds[i].timer
                /\ binds'[i] # binds[i] )
              => binds'[i].state = "BOUND" ]_vars

\* C30 witness: a window that holds the method list of A has since received
\* a response without a method list for B, and still holds the list.
C30_Witness ==
    \E w \in Windows :
        /\ mainApiMap[w][<<"A">>].def
        /\ ~mainApiMap[w][<<"B">>].def
        /\ \E j, l \in 1..responsesRead[w] :
              /\ j < l
              /\ responseChannel[w][j].className = <<"A">>
              /\ responseChannel[w][j].methodNames.def
              /\ responseChannel[w][l].className = <<"B">>
              /\ ~responseChannel[w][l].methodNames.def

\* A window that holds the method list of A has since received a second
\* response for A.
C30_SameNameAgain ==
    \E w \in Windows :
        \E j, k \in 1..responsesRead[w] :
            /\ j < k
            /\ responseChannel[w][j].className = <<"A">>
            /\ responseChannel[w][k].className = <<"A">>

\* C31: the request listener answers each discovery request it receives with
\* exactly one response, which carries the requested name and the registry
\* entry held at that instant; for a name that has not been exposed the
\* response carries no method list, receiving it leaves the name without a
\* cached list and binds nothing, and every bind that is BOUND without the
\* proxy cache has a received response that carried a list.
C31_OneResponsePerRequest ==
    [][ \A w \in Windows :
          /\ (requestsRead'[w] # requestsRead[w] /\ hostListening) =>
                LET name == requestChannel[w][requestsRead[w] + 1] IN
                /\ Len(responseChannel'[w]) = Len(responseChannel[w]) + 1
                /\ SubSeq(responseChannel'[w], 1, Len(responseChannel[w])) = responseChannel[w]
                /\ responseChannel'[w][Len(responseChannel'[w])].className = name
                /\ responseChannel'[w][Len(responseChannel'[w])].methodNames = windowApiMap[name]
                /\ ~(\E k \in 1..Len(exposed) : exposed[k].className = name) =>
                       ~responseChannel'[w][Len(responseChannel'[w])].methodNames.def
          /\ (responsesRead'[w] # responsesRead[w]
               /\ ~responseChannel[w][responsesRead[w] + 1].methodNames.def) =>
                /\ ~mainApiMap'[w][responseChannel[w][responsesRead[w] + 1].className].def
                /\ binds' = binds
                /\ boundMainApis' = boundMainApis
          /\ \A i \in 1..Len(binds') :
                (binds'[i].win = w /\ binds'[i].state = "BOUND" /\ ~binds'[i].fromCache) =>
                    \E k \in 1..responsesRead'[w] :
                        /\ responseChannel'[w][k].className = binds'[i].api
                        /\ responseChannel'[w][k].methodNames.def ]_vars

\* A window has received a response without a method list for a name it is
\* still waiting to bind, and a second bind of the name, whose request was
\* answered after the exposure, is BOUND.
C31_Witness ==
    \E w \in Windows, i, j \in 1..Len(binds) :
        /\ binds[i].win = w /\ binds[j].win = w /\ binds[i].api = binds[j].api
        /\ binds[i].state = "DISCOVERING" /\ binds[i].attempts >= 2
        /\ binds[j].state = "BOUND" /\ ~binds[j].fromCache
        /\ responsesRead[w] >= 2
        /\ responseChannel[w][1].className = binds[i].api
        /\ ~responseChannel[w][1].methodNames.def
        /\ responseChannel[w][2].methodNames = windowApiMap[binds[i].api]
        /\ responseChannel[w][2].methodNames.def

\* C32: the value makeRethrownReturnValue returns for a thrown object has no
\* stack field, as produced and as transferred, and does not depend on the
\* stack of the thrown object: two thrown objects that differ only in their
\* stack yield the same value and the same RestorationInfo.
C32_StackStripped ==
    /\ \A c \in 1..Len(calls) :
          calls[c].thrown.type = "object" =>
             /\ ~\E p \in calls[c].response.value.props : p[1] = "stack"
             /\ ~\E p \in calls[c].wire.value.props : p[1] = "stack"
    /\ \A c, d \in 1..Len(calls) :
          ( /\ calls[c].thrown.type = "object" /\ calls[d].thrown.type = "object"
            /\ DeleteProp(calls[c].thrown, "stack") = DeleteProp(calls[d].thrown, "stack") )
          => /\ calls[c].response = calls[d].response
             /\ calls[c].wire = calls[d].wire

\* Two objects that are not Errors, each with a field named stack and
\* differing in that field only, have been passed to makeRethrownReturnValue.
C32_Witness ==
    /\ Len(calls) = 2
    /\ calls[1].thrown # calls[2].thrown
    /\ calls[1].thrown.type = "object"
    /\ ~calls[1].thrown.isError
    /\ GetProp(calls[1].thrown, "stack").type = "string"
    /\ GetProp(calls[2].thrown, "stack").type = "string"
    /\ DeleteProp(calls[1].thrown, "stack") = DeleteProp(calls[2].thrown, "stack")
    /\ calls[1].response = calls[2].response

\* The values a method returns normally that do not carry the rethrow marker.
C33_ReturnedUnmarked ==
    { b.value : b \in { x \in MethodBehaviours :
                          /\ x.kind = "return"
                          /\ ~\E p \in x.value.props : p[1] = "_affinity_rethrow" } }

\* C33 (as claimed): wasThrownValue is true of every value produced by
\* makeRethrownReturnValue, as produced and as transferred, whatever fields
\* the thrown value has, and false of every normally returned value without
\* the marker, null and undefined included.
C33_ThrownIffMarked ==
    /\ \A c \in 1..Len(calls) :
          /\ calls[c].marked
          /\ Truthy(GetProp(calls[c].response.value, "_affinity_rethrow"))
    /\ \A v \in C33_ReturnedUnmarked : ~wasThrownValue(v)

\* C34: when the RestorationInfo of a relayed thrown value says isError and
\* the restorer is absent or does not return an Error, restoreThrownValue
\* returns an instance of the generic Error whose message is the message
\* the wire value preserved and whose other fields, the stack aside, are
\* the fields of the wire value without the rethrow marker.
C34_GenericError ==
    \A c \in 1..Len(calls) :
       ( /\ calls[c].state \in {"restored", "raised"}
         /\ calls[c].response.info.def /\ calls[c].response.info.isError ) =>
          /\ calls[c].state = "restored"
          /\ calls[c].result.type = "object"
          /\ calls[c].result.isError
          /\ calls[c].result.className = "Error"
          /\ GetProp(calls[c].result, "message") = GetProp(calls[c].wire.value, "message")
          /\ GetProp(calls[c].result, "message") = GetProp(calls[c].thrown, "message")
          /\ { p \in calls[c].result.props : p[1] # "stack" } =
                { p \in calls[c].wire.value.props : p[1] # "_affinity_rethrow" }

\* An Error with the message "bad creds" and a field code, and an Error of a
\* derived class, have been restored as generic Errors, one with a restorer
\* that does not know the class and one without a restorer.
C34_Witness ==
    /\ Len(calls) = 2
    /\ calls[1].state = "restored" /\ calls[2].state = "restored"
    /\ calls[1].restorer = "restorer" /\ calls[2].restorer = "none"
    /\ calls[1].thrown.isError /\ calls[2].thrown.isError
    /\ GetProp(calls[1].result, "message") = StringValue("bad creds")
    /\ GetProp(calls[1].result, "code") = StringValue("BAD_CREDS")
    /\ calls[2].thrown.className = "MyError"
    /\ calls[2].result.className = "Error"

\* The synthetic trace restoreThrownValue gives a value:
\* "<constructor name>: <message>" and the line naming the origin side.
C35_SyntheticStack(value) ==
    StringValue(value.className \o ": " \o GetProp(value, "message").v \o "\n\tin main process")

\* C35 (as claimed): for every relayed thrown value that is not a boxed
\* non-object, the value restoreThrownValue returns has its stack set to the
\* synthetic trace, whether or not the value is an Error.
C35_StackAlwaysSynthetic ==
    \A c \in 1..Len(calls) :
       ( /\ calls[c].state \in {"restored", "raised"}
         /\ calls[c].response.info.className # "__ThrownNonObject" ) =>
          /\ calls[c].state = "restored"
          /\ GetProp(calls[c].result, "stack") = C35_SyntheticStack(calls[c].result)

\* C35 (amended): when the value restoreThrownValue returns is an Error its
\* stack is the synthetic trace; when it is an object that is not an Error
\* it is returned without a stack field.
C35_StackSyntheticForErrors ==
    \A c \in 1..Len(calls) :
       ( /\ calls[c].state = "restored"
         /\ calls[c].response.info.className # "__ThrownNonObject" ) =>
          /\ calls[c].result.type = "object"
          /\ calls[c].result.isError =>
                /\ GetProp(calls[c].result, "stack") = C35_SyntheticStack(calls[c].result)
                /\ GetProp(calls[c].result, "stack") # GetProp(calls[c].thrown, "stack")
          /\ ~calls[c].result.isError =>
                /\ ~calls[c].thrown.isError
                /\ ~\E p \in calls[c].result.props : p[1] = "stack"

\* An Error and an object that is not an Error but had a field named stack
\* have both been restored.
C35_Witness ==
    /\ Len(calls) = 2
    /\ calls[1].state = "restored" /\ calls[2].state = "restored"
    /\ calls[1].thrown.isError
    /\ GetProp(calls[1].result, "stack") = StringValue("Error: boom\n\tin main process")
    /\ calls[2].thrown.type = "object" /\ ~calls[2].thrown.isError
    /\ GetProp(calls[2].thrown, "stack").type = "string"
    /\ GetProp(calls[2].result, "stack") = UndefinedValue

\* The kind of a thrown value, as the claim lists them.
C39_Kind(thrown) ==
    IF thrown.type # "object" THEN thrown.type
    ELSE IF thrown.isError THEN "Error"
    ELSE IF thrown.className = "Object" THEN "plain object"
    ELSE "class instance"

\* C39 (as claimed): for a thrown value of every kind, restoreThrownValue
\* applied to the pair makeRethrownReturnValue produced completes without
\* raising an error of its own, and a thrown null is handed on as null.
C39_RestoreCompletes ==
    \A c \in 1..Len(calls) :
       calls[c].state \in {"restored", "raised"} =>
          /\ calls[c].state = "restored"
          /\ calls[c].thrown.type = "null" => calls[c].result = NullValue

\* For every kind but null the restoration completes, and a non-object value
\* is handed on as it was thrown.
C39_CompletesUnlessNull ==
    \A c \in 1..Len(calls) :
       (calls[c].state \in {"restored", "raised"} /\ calls[c].thrown.type # "null") =>
          /\ calls[c].state = "restored"
          /\ calls[c].thrown.type # "object" => calls[c].result = calls[c].thrown

\* A thrown null has made restoreThrownValue raise a TypeError.
C39_NullRaises ==
    \E c \in 1..Len(calls) :
       /\ calls[c].thrown = NullValue
       /\ calls[c].state = "raised"
       /\ calls[c].result.className = "TypeError"

\* Values of two different kinds other than null have been restored.
C39_OtherKindsRestored ==
    /\ Len(calls) = 2
    /\ calls[1].state = "restored" /\ calls[2].state = "restored"
    /\ C39_Kind(calls[1].thrown) = "undefined"
    /\ C39_Kind(calls[2].thrown) = "class instance"

\* Whether a handler has been installed for every method name of a list.
C36_AllHandled(apiClassName, methodNames) ==
    \A k \in 1..Len(methodNames) :
        \E h \in 1..Len(installed) : installed[h] = toIpcName(apiClassName, methodNames[k])

\* C36: whenever the registry holds an entry for an API, a handler is
\* installed for each method name of the entry, and every discovery response
\* that carries a method list names only methods that have a handler.
C36_HandlersBeforeRegistry ==
    /\ \A a \in ApiNames :
          windowApiMap[a].def => C36_AllHandled(a, windowApiMap[a].names)
    /\ \A w \in Windows : \A k \in 1..Len(responseChannel[w]) :
          responseChannel[w][k].methodNames.def =>
              C36_AllHandled(responseChannel[w][k].className,
                             responseChannel[w][k].methodNames.names)

\* An API with a method has been exposed and a discovery response carrying
\* its method list has been sent.
C36_Witness ==
    /\ \E a \in ApiNames : windowApiMap[a].def /\ Len(windowApiMap[a].names) >= 1
    /\ Len(installed) >= 1
    /\ \E w \in Windows : \E k \in 1..Len(responseChannel[w]) :
          /\ responseChannel[w][k].methodNames.def
          /\ Len(responseChannel[w][k].methodNames.names) >= 1

\* Whether a sequence holds no element twice.
C37_NoRepeats(q) == \A i, j \in 1..Len(q) : i # j => q[i] # q[j]

\* C37 (as claimed): for every exposed API, one whose class overrides a
\* method of an ancestor class or shadows it with an own property included,
\* each method name appears at most once in the registry entry and
\* installHandler is called at most once for each wire name.
C37_NoDuplicateMethods ==
    /\ \A a \in ApiNames : windowApiMap[a].def => C37_NoRepeats(windowApiMap[a].names)
    /\ C37_NoRepeats(installed)

\* Whether two objects of the prototype chain of an instance, the universal
\* base object aside, have a property of the same name.
C37_Redeclares(api) ==
    \E l1, l2 \in 1..(Len(api.chain) - 1) :
        /\ l1 # l2
        /\ \E k1 \in 1..Len(api.chain[l1]), k2 \in 1..Len(api.chain[l2]) :
              /\ api.chain[l1][k1].name = api.chain[l2][k2].name
              /\ api.chain[l1][k1].name # <<"c","o","n","s","t","r","u","c","t","o","r">>

\* Without an overridden or shadowed property there is no duplicate.
C37_NoDuplicatesWithoutOverride ==
    (\A k \in 1..Len(exposed) : ~C37_Redeclares(exposed[k])) => C37_NoDuplicateMethods

\* A class that overrides method m of its ancestor has been exposed: the
\* registry entry holds m twice and two handlers were installed for "A:m".
C37_OverrideDuplicates ==
    /\ Len(exposed) = 1
    /\ exposed[1].chain[1] = <<>>
    /\ \E k \in 1..Len(exposed[1].chain[2]) : exposed[1].chain[2][k] = Prop(<<"m">>, TRUE)
    /\ \E k \in 1..Len(exposed[1].chain[3]) : exposed[1].chain[3][k] = Prop(<<"m">>, TRUE)
    /\ Cardinality({ k \in 1..Len(windowApiMap[<<"A">>].names) :
                       windowApiMap[<<"A">>].names[k] = <<"m">> }) = 2
    /\ Cardinality({ h \in 1..Len(installed) : installed[h] = <<"A", ":", "m">> }) = 2

\* C38: the step in which a bind times out changes neither the registry
\* cache nor the cache of bound proxies and creates no proxy; a bind that has
\* timed out never changes again; and a bindMainApi call made for a name
\* that has a timed-out bind and no cached proxy sends a discovery request of
\* its own and makes its own attempts.
C38_TimeoutLeavesCaches ==
    [][ /\ \A i \in 1..Len(binds') :
              ( /\ binds'[i].state = "TIMED_OUT"
                /\ (i > Len(binds) \/ binds[i].state # "TIMED_OUT") ) =>
                 /\ mainApiMap' = mainApiMap
                 /\ boundMainApis' = boundMainApis
                 /\ proxies' = proxies
        /\ \A i \in 1..Len(binds) :
              binds[i].state = "TIMED_OUT" => binds'[i] = binds[i]
        /\ Len(binds') = Len(binds) + 1 =>
              LET nb == binds'[Len(binds')] IN
              ( /\ boundMainApis[nb.win][nb.api] = NoProxy
                /\ \E i \in 1..Len(binds) :
                      /\ binds[i].win = nb.win /\ binds[i].api = nb.api
                      /\ binds[i].state = "TIMED_OUT" ) =>
                 /\ requestChannel'[nb.win] = Append(requestChannel[nb.win], nb.api)
                 /\ ~nb.fromCache
                 /\ nb.attempts = 1
                 /\ nb.state = "BOUND" <=> mainApiMap[nb.win][nb.api].def ]_vars

\* A bind has timed out and a later bind of the same name in the same
\* window, which sent the second discovery request for the name, is BOUND
\* to a proxy that its own attempt created.
C38_Witness ==
    \E i, j \in 1..Len(binds) :
        /\ i < j
        /\ binds[i].win = binds[j].win /\ binds[i].api = binds[j].api
        /\ binds[i].state = "TIMED_OUT"
        /\ binds[j].state = "BOUND" /\ ~binds[j].fromCache
        /\ binds[j].promise = "resolved"
        /\ RequestCount(binds[j].win, binds[j].api) = 2
        /\ boundMainApis[binds[j].win][binds[j].api] = binds[j].value
        /\ Len(proxies) = 1

\* C40: in every process the discovery listeners are installed at most once,
\* exactly when the process has called bindMainApi or exposeWindowApi,
\* however many such calls it has made; hence the requests received have
\* yielded at most one response each.
C40_ListenersInstalledOnce ==
    /\ \A p \in Processes : ipcListeners[p] <= 1
    /\ \A w \in Windows : (ipcListeners[w] = 1) <=> listeningForIPC[w]
    /\ \A w \in Windows :
          listeningForIPC[w] <=> (\E i \in 1..Len(binds) : binds[i].win = w)
    /\ (ipcListeners[Host] = 1) <=> hostListening
    /\ Len(exposed) > 0 => hostListening
    /\ \A w \in Windows : Len(responseChannel[w]) <= requestsRead[w]

\* A window has called bindMainApi twice and the exposing process has called
\* exposeWindowApi twice; both requests of the window were received and
\* answered.
C40_Witness ==
    \E w \in Windows :
        /\ Cardinality({ i \in 1..Len(binds) : binds[i].win = w }) = 2
        /\ Len(exposed) = 2
        /\ ipcListeners[w] = 1
        /\ ipcListeners[Host] = 1
        /\ requestsRead[w] = 2
        /\ Len(responseChannel[w]) = 2
        /\ responsesRead[w] = 2

====
